---------------------------- MODULE Spec2Model ----------------------------
(***************************************************************************)
(* Model of the chart-pattern detection engine (src/patterns).             *)
(*                                                                         *)
(* Prices and volumes are integers (price ticks), bar indices are 0-based  *)
(* as in the Python source (At(s, i) reads s[i]).  Timestamps are integer  *)
(* clock ticks, TicksPerDay of them per calendar day.  A confidence is an  *)
(* integer number of hundredths, the value round(confidence, 2) * 100.     *)
(* Real-valued comparisons of the source are stated exactly, by cross      *)
(* multiplication; a confidence formula is evaluated as an exact rational  *)
(* number of hundredths and rounded to the nearest one (square roots to    *)
(* the precision stated where they are taken).                             *)
(***************************************************************************)
EXTENDS Integers, Sequences, FiniteSets, TLC

VARIABLES
    raw,        \* the raw candidate list handed to _deduplicate
    matches,    \* the same list object after its in-place sort
    kept,       \* the list _deduplicate returned
    pc,         \* position of the run: "collect", "deduped", "loaded", "detected", "clock"
    df,         \* the OHLCV frame: [highs, lows, closes, volumes, dates]
    cadence,    \* the bar granularity the frame was fetched with
    detector,   \* the detector last invoked ("none" before any call)
    result,     \* what that call produced: [raised, divzero, matches]
    now,        \* wall clock, in ticks
    end_date,   \* end_date of the match whose is_active_today is read
    active,     \* is_active_today as last read: "True", "False" ("unread" if stale)
    seen,       \* per detector, what its first detect call on df produced
    calls,      \* number of detect calls made on df
    registry,   \* the package's module state: [cache, discoveries, instances]
    config,     \* the scan's configuration: [assets, enabled_patterns]
    scan,       \* the scan loop's locals and what it has collected
    fetch,      \* one fetch_ohlcv call: its position, locals and providers called
    threads     \* concurrent callers of the registry: their positions and locals,
                \* and the interpreter's import state they share

callVars == <<seen, calls>>
scanVars == <<registry, config, scan>>
envVars == <<fetch, threads>>

vars == <<raw, matches, kept, pc, df, cadence, detector, result, now, end_date, active,
          callVars, scanVars, envVars>>

-----------------------------------------------------------------------------
(* Helpers *)

Max(a, b) == IF a >= b THEN a ELSE b
Min(a, b) == IF a <= b THEN a ELSE b
Abs(a) == IF a >= 0 THEN a ELSE -a

\* 0-based read of a Python list / numpy array
At(s, i) == s[i + 1]

\* Python slice s[a:b] (0-based, b exclusive, clipped to the sequence)
Slice(s, a, b) == SubSeq(s, Max(a, 0) + 1, Min(b, Len(s)))

-----------------------------------------------------------------------------
(* Timestamps *)

TicksPerDay == 2
MaxDay == 8

\* pd.Timestamp.normalize(): drop the time of day
Normalize(t) == t - (t % TicksPerDay)

\* pd.Timedelta(days=d)
Timedelta(d) == d * TicksPerDay

ActiveWindowDays == 3

\* Mutant: strict comparison at the window's edge
IsActiveTodayStrict(e, t) == Normalize(e) > Normalize(t) - Timedelta(ActiveWindowDays)

\* PatternMatch.is_active_today, read at wall-clock time t
IsActiveToday(e, t) == Normalize(e) >= Normalize(t) - Timedelta(ActiveWindowDays)

-----------------------------------------------------------------------------
(* The deduplicator (the same static method in each of the six detectors) *)

\* Mutant: a candidate overlaps a kept one also when they merely touch
OverlapsTouching(m, k) ==
    Max(m.start_date, k.start_date) <= Min(m.end_date, k.end_date)

\* the overlap test of the inner loop
Overlaps(m, k) ==
    Max(m.start_date, k.start_date) < Min(m.end_date, k.end_date)

\* Mutant: an unstable sort, a candidate goes before its equals
InsertBeforeEquals(s, m) ==
    LET n == Cardinality({i \in 1..Len(s) : s[i].confidence > m.confidence})
    IN  SubSeq(s, 1, n) \o <<m>> \o SubSeq(s, n + 1, Len(s))

\* One step of the stable descending sort: m goes after every element whose
\* confidence is >= its own (s is already sorted).
InsertByConfidence(s, m) ==
    LET n == Cardinality({i \in 1..Len(s) : s[i].confidence >= m.confidence})
    IN  SubSeq(s, 1, n) \o <<m>> \o SubSeq(s, n + 1, Len(s))

RECURSIVE SortFrom(_, _)
SortFrom(ms, acc) ==
    IF ms = <<>> THEN acc
    ELSE SortFrom(Tail(ms), InsertByConfidence(acc, Head(ms)))

RECURSIVE SortAscendingFrom(_, _)
SortAscendingFrom(ms, acc) ==
    IF ms = <<>> THEN acc
    ELSE LET m == Head(ms)
             n == Cardinality({i \in 1..Len(acc) : acc[i].confidence <= m.confidence})
         IN  SortAscendingFrom(Tail(ms),
                 SubSeq(acc, 1, n) \o <<m>> \o SubSeq(acc, n + 1, Len(acc)))

\* Mutant: the sort without reverse=True
SortByConfidenceAsc(ms) == SortAscendingFrom(ms, <<>>)

\* matches.sort(key=lambda m: m.confidence, reverse=True)
SortByConfidenceDesc(ms) == SortFrom(ms, <<>>)

\* Mutant: the greedy loop forgets to test the candidate against kept
KeepAll(ms, acc) == acc \o ms

RECURSIVE GreedyKeep(_, _)
\* for m in matches: keep m unless it overlaps an already kept match
GreedyKeep(ms, acc) ==
    IF ms = <<>> THEN acc
    ELSE LET m == Head(ms)
             overlaps == \E i \in 1..Len(acc) : Overlaps(m, acc[i])
         IN  GreedyKeep(Tail(ms), IF overlaps THEN acc ELSE Append(acc, m))

\* Mutant: only the most confident candidate is returned
KeepFirst(ms) == IF ms = <<>> THEN <<>> ELSE <<SortByConfidenceDesc(ms)[1]>>

\* _deduplicate(matches)
Deduplicate(ms) ==
    IF ms = <<>> THEN <<>> ELSE GreedyKeep(SortByConfidenceDesc(ms), <<>>)


-----------------------------------------------------------------------------
(* Numeric helpers shared by the detectors *)

\* floor(a / b) for any sign of a and b (b # 0)
FloorDiv(a, b) == IF b > 0 THEN a \div b ELSE (-a) \div (-b)

\* np.max / np.min of a non-empty array
MaxOf(s) == CHOOSE x \in {s[i] : i \in 1..Len(s)} : \A j \in 1..Len(s) : s[j] <= x
MinOf(s) == CHOOSE x \in {s[i] : i \in 1..Len(s)} : \A j \in 1..Len(s) : s[j] >= x

\* np.argmax / np.argmin: 0-based position of the first extreme value
ArgMax(s) == (CHOOSE i \in 1..Len(s) :
                 /\ \A j \in 1..Len(s) : s[j] <= s[i]
                 /\ \A j \in 1..(i - 1) : s[j] < s[i]) - 1
ArgMin(s) == (CHOOSE i \in 1..Len(s) :
                 /\ \A j \in 1..Len(s) : s[j] >= s[i]
                 /\ \A j \in 1..(i - 1) : s[j] > s[i]) - 1

RECURSIVE Sum(_)
Sum(s) == IF s = <<>> THEN 0 ELSE Head(s) + Sum(Tail(s))

\* the least element of a non-empty set of integers
Least(S) == CHOOSE x \in S : \A y \in S : x <= y

\* floor of the square root
RECURSIVE ISqrtFrom(_, _, _)
ISqrtFrom(x, lo, hi) ==
    IF lo >= hi THEN lo
    ELSE LET mid == (lo + hi + 1) \div 2
         IN  IF mid * mid <= x THEN ISqrtFrom(x, mid, hi)
             ELSE ISqrtFrom(x, lo, mid - 1)
ISqrt(x) == ISqrtFrom(x, 0, 46340)

\* min(hi, max(lo, c)), in hundredths
Clamp(lo, hi, c) == Min(hi, Max(lo, c))

\* round(confidence, 2) of the confidence num / den hundredths (den # 0): the
\* nearest hundredth; an exact tie, which the source's binary floats resolve
\* by their representation error, is resolved upward
Round2(num, den) ==
    IF den > 0 THEN FloorDiv(2 * num + den, 2 * den)
    ELSE FloorDiv(-2 * num - den, -2 * den)

\* Mutant: the match ends on the bar it starts on
PatternMatchAtStart(name, dates, start, end, conf, info) ==
    [pattern_name |-> name, start |-> start, end |-> start,
     start_date |-> At(dates, start), end_date |-> At(dates, start),
     confidence |-> conf, info |-> info]

PatternMatchSwapped(name, dates, start, end, conf, info) ==
    [pattern_name |-> name, start |-> end, end |-> start,
     start_date |-> At(dates, end), end_date |-> At(dates, start),
     confidence |-> conf, info |-> info]

\* PatternMatch(pattern_name, start_date=dates[start], end_date=dates[end],
\*              confidence=round(confidence, 2), ...); info keeps the
\* detector's own measurements of the candidate
PatternMatch(name, dates, start, end, conf, info) ==
    [pattern_name |-> name, start |-> start, end |-> end,
     start_date |-> At(dates, start), end_date |-> At(dates, end),
     confidence |-> conf, info |-> info]

\* a candidate the scan skipped
Skipped == [ok |-> FALSE, divzero |-> FALSE]

IsFound(c) == c.ok

ReturnedAccumulated(raw_matches, divzero) ==
    [raised |-> FALSE, divzero |-> divzero,
     matches |-> result.matches \o Deduplicate(raw_matches)]

\* what a detect call hands back (or how it ended)
Returned(raw_matches, divzero) ==
    [raised |-> FALSE, divzero |-> divzero, matches |-> Deduplicate(raw_matches)]
Raised == [raised |-> TRUE, divzero |-> FALSE, matches |-> <<>>]

-----------------------------------------------------------------------------
(* Extrema extraction: scipy.signal.argrelextrema(data, comparator, order),  *)
(* whose default mode='clip' compares an index near a boundary with the      *)
(* boundary element itself                                                   *)

Clip(i, n) == Max(0, Min(i, n - 1))

IsRelExtremum(data, i, order, greater) ==
    \A shift \in 1..order :
        LET main == At(data, i)
            plus == At(data, Clip(i + shift, Len(data)))
            minus == At(data, Clip(i - shift, Len(data)))
        IN  IF greater THEN main >= plus /\ main >= minus
            ELSE main <= plus /\ main <= minus

RelExtremaFrom(data, i, order, greater) ==
    LET IsExtremum(j) == IsRelExtremum(data, j, order, greater)
    IN  SelectSeq([k \in 1..(Len(data) - i) |-> i + k - 1], IsExtremum)

\* argrelextrema(highs, np.greater_equal, order=order)[0]
LocalMaxIdx(highs, order) == RelExtremaFrom(highs, 0, order, TRUE)
\* argrelextrema(lows, np.less_equal, order=order)[0]
LocalMinIdx(lows, order) == RelExtremaFrom(lows, 0, order, FALSE)

-----------------------------------------------------------------------------
(* Pennant detector (src/patterns/pennant.py) *)

PENNANT_MIN_LEN == 25
FLAGPOLE_MAX_BARS == 10
FLAGPOLE_MIN_BARS == 3
PENNANT_MAX_BARS == 20
PENNANT_MIN_BARS == 5
PENNANT_LAST_END == 15

\* abs(move) >= MIN_FLAGPOLE_MOVE, move = (closes[pennant_start] - closes[f_start]) / closes[f_start]
IsFlagpole(closes, pennant_start, f_len) ==
    LET f_start == pennant_start - f_len
    IN  Abs(At(closes, pennant_start) - At(closes, f_start)) * 100
            >= 5 * At(closes, f_start)

\* One (end_idx, p_len) pass of the scan
PennantCandidate(f, end_idx, p_len) ==
    LET pennant_start == end_idx - p_len
    IN  IF pennant_start < FLAGPOLE_MAX_BARS THEN Skipped
        ELSE
        LET flags == {fl \in FLAGPOLE_MIN_BARS..FLAGPOLE_MAX_BARS :
                          IsFlagpole(f.closes, pennant_start, fl)}
        IN  IF flags = {} THEN Skipped
            ELSE
            LET f_len == Least(flags)
                flag_start == pennant_start - f_len
                flag_move == At(f.closes, pennant_start) - At(f.closes, flag_start)
                first_half == p_len \div 2
                max_1 == MaxOf(Slice(f.highs, pennant_start, pennant_start + first_half))
                max_2 == MaxOf(Slice(f.highs, pennant_start + first_half, end_idx + 1))
                min_1 == MinOf(Slice(f.lows, pennant_start, pennant_start + first_half))
                min_2 == MinOf(Slice(f.lows, pennant_start + first_half, end_idx + 1))
                range_1 == max_1 - min_1
                range_2 == max_2 - min_2
                c0 == At(f.closes, flag_start)
                \* 0.5 + 0.2 * (abs(flag_move) / 0.1) + 0.2 * (1 - range_2 / range_1);
                \* with range_1 = 0 the float division gives nan (range_2 is 0
                \* too) and max(0.4, nan) is 0.4
                confidence ==
                    IF range_1 = 0 THEN 40
                    ELSE Clamp(40, 95,
                             Round2(70 * c0 * range_1 + 200 * Abs(flag_move) * range_1
                                        - 20 * range_2 * c0,
                                    c0 * range_1))
            IN  IF first_half < 2 THEN Skipped
                ELSE IF max_2 * 100 > max_1 * 101 \/ min_2 * 100 < min_1 * 99 THEN Skipped
                ELSE IF range_2 * 10 > range_1 * 8 THEN Skipped
                ELSE [ok |-> TRUE,
                      divzero |-> (range_1 = 0),
                      m |-> PatternMatch("Banderín (Pennant)", f.dates, flag_start, end_idx,
                                confidence,
                                [pennant_start |-> pennant_start, p_len |-> p_len,
                                 f_len |-> f_len, first_half |-> first_half,
                                 max_1 |-> max_1, max_2 |-> max_2,
                                 min_1 |-> min_1, min_2 |-> min_2])]

\* the bars one (end_idx, p_len) pass of the scan reads: the indices of the
\* closes read while looking for the flagpole, and the index ranges (first
\* index, index after the last) of the two half-windows when it gets to them
PennantReads(f, end_idx, p_len) ==
    LET pennant_start == end_idx - p_len
        flags == {fl \in FLAGPOLE_MIN_BARS..FLAGPOLE_MAX_BARS :
                      IsFlagpole(f.closes, pennant_start, fl)}
        \* for f_len in range(3, FLAGPOLE_MAX_BARS + 1): ... break
        tried == IF flags = {} THEN FLAGPOLE_MIN_BARS..FLAGPOLE_MAX_BARS
                 ELSE FLAGPOLE_MIN_BARS..Least(flags)
        first_half == p_len \div 2
    IN  IF pennant_start < FLAGPOLE_MAX_BARS THEN [closes |-> {}, windows |-> <<>>]
        ELSE [closes |-> {pennant_start} \cup {pennant_start - fl : fl \in tried},
              windows |->
                  IF flags = {} \/ first_half < 2 THEN <<>>
                  ELSE << <<pennant_start, pennant_start + first_half>>,
                          <<pennant_start + first_half, end_idx + 1>> >>]

\* Mutant: the scan of an end bar goes on after a match
EveryLength(found) == found

\* break  # Found one for this end_idx
UpToBreak(found) == IF found = {} THEN {} ELSE {Least(found)}

\* for p_len in range(5, PENNANT_MAX_BARS + 1): the consolidation lengths a
\* candidate is appended for at this end bar
PennantAtEnd(f, end_idx) ==
    UpToBreak({p \in PENNANT_MIN_BARS..PENNANT_MAX_BARS :
                   PennantCandidate(f, end_idx, p).ok})

\* for end_idx in range(len(df) - 1, 15, -1): the candidates, in the order
\* they are appended
PennantScan(f) ==
    LET n == Len(f.highs)
        lengths == [k \in 1..(n - 1 - PENNANT_LAST_END) |-> PennantAtEnd(f, n - k)]
        width == PENNANT_MAX_BARS - PENNANT_MIN_BARS + 1
        passes == [q \in 1..(Len(lengths) * width) |->
                      [end_idx |-> n - 1 - (q - 1) \div width,
                       p_len |-> PENNANT_MIN_BARS + ((q - 1) % width)]]
        IsAppended(x) == x.p_len \in lengths[n - x.end_idx]
        appended == SelectSeq(passes, IsAppended)
    IN  [i \in 1..Len(appended) |->
            PennantCandidate(f, appended[i].end_idx, appended[i].p_len)]

\* PennantDetector.detect
PennantDetect(f) ==
    IF Len(f.highs) < PENNANT_MIN_LEN THEN Returned(<<>>, FALSE)
    ELSE LET found == PennantScan(f)
         IN  Returned([i \in 1..Len(found) |-> found[i].m],
                      \E i \in 1..Len(found) : found[i].divzero)

-----------------------------------------------------------------------------
(* VCP detector (src/patterns/vcp.py) *)

VCP_LONG_SERIES == 100
VCP_DAILY_MIN_LEN == 60
VCP_OTHER_MIN_LEN == 24
VCP_MAX_CONTRACTIONS == 5
VCP_MIN_ORDER == 2
VCP_ORDER_DIVISOR == 20

\* df.index[1] is evaluated unless len(df) > 100 short-circuits the `or`;
\* on a frame of fewer than two bars it raises IndexError
IsDailyRaises(f) == Len(f.dates) <= VCP_LONG_SERIES /\ Len(f.dates) < 2

\* is_daily = len(df) > 100 or (df.index[1] - df.index[0]).days == 1
IsDaily(f) ==
    \/ Len(f.dates) > VCP_LONG_SERIES
    \/ (At(f.dates, 1) - At(f.dates, 0)) \div TicksPerDay = 1

\* min_len = 60 if is_daily else 24
VcpMinLen(f) == IF IsDaily(f) THEN VCP_DAILY_MIN_LEN ELSE VCP_OTHER_MIN_LEN

\* idx[idx > x][0], or -1 when idx[idx > x] is empty
FirstAfter(idx, x) ==
    LET later == {i \in 1..Len(idx) : idx[i] > x}
    IN  IF later = {} THEN -1 ELSE idx[Least(later)]

\* for _ in range(5): the next low after search_start, the next high after
\* that low; stop when either is missing
RECURSIVE VcpContractions(_, _, _, _, _)
VcpContractions(f, local_max_idx, local_min_idx, search_start, left) ==
    IF left = 0 THEN <<>>
    ELSE LET next_low_idx == FirstAfter(local_min_idx, search_start)
             next_high_idx == FirstAfter(local_max_idx, next_low_idx)
         IN  IF next_low_idx < 0 THEN <<>>
             ELSE IF next_high_idx < 0 THEN <<>>
             ELSE << [low_idx |-> next_low_idx, high_idx |-> next_high_idx,
                      low_val |-> At(f.lows, next_low_idx),
                      high_val |-> At(f.highs, next_high_idx),
                      contraction_range |-> At(f.highs, next_high_idx)
                                                - At(f.lows, next_low_idx)] >>
                  \o VcpContractions(f, local_max_idx, local_min_idx,
                                     next_high_idx, left - 1)

\* Mutant: the ranges are not compared
RangesUnchecked(contractions) == TRUE

\* all(ranges[i] > ranges[i + 1] for i in range(len(ranges) - 1))
RangesDecrease(contractions) ==
    \A i \in 1..(Len(contractions) - 1) :
        contractions[i].contraction_range > contractions[i + 1].contraction_range

\* One pivot of the scan.  range_pct = contraction_range / pivot_high * 100
\* with pivot_high > 0, so the ranges compare as the contraction_range do.
VcpCandidate(f, local_max_idx, local_min_idx, hi_start) ==
    LET pivot_idx == At(local_max_idx, hi_start)
        pivot_high == At(f.highs, pivot_idx)
        contractions == VcpContractions(f, local_max_idx, local_min_idx, pivot_idx,
                                        VCP_MAX_CONTRACTIONS)
        k == Len(contractions)
        min_contractions == IF IsDaily(f) THEN 2 ELSE 1
        first == contractions[1].contraction_range
        last == contractions[k].contraction_range
        decreasing == RangesDecrease(contractions)
        \* abs(hv - pivot_high) / pivot_high < 0.08
        ceiling_check == \A i \in 1..k :
                             Abs(contractions[i].high_val - pivot_high) * 100
                                 < 8 * pivot_high
        \* ranges[-1] <= ranges[0] * 0.8 or ranges[-1] < 10 ; ranges[0] < 15
        tightness_check ==
            IF k > 1 THEN last * 10 <= first * 8 \/ last * 100 < 10 * pivot_high
            ELSE first * 100 < 15 * pivot_high
        start_idx == pivot_idx
        end_idx == contractions[k].high_idx
        half == (end_idx - start_idx) \div 2
        first_half == Slice(f.volumes, start_idx, start_idx + half)
        second_half == Slice(f.volumes, start_idx + half, end_idx)
        \* np.mean(second half) < np.mean(first half)
        vol_contracting ==
            IF end_idx > start_idx + 5
            THEN Sum(second_half) * Len(first_half) < Sum(first_half) * Len(second_half)
            ELSE TRUE
        vol_bonus == IF vol_contracting THEN 15 ELSE 0
        \* 0.4 + 0.15 * min(len, 4) / 4 + (0.15) + 0.1 * (1 - ranges[-1] / ranges[0])
        \* (or + 0.05), then min(0.95, .) and no lower bound.  With
        \* ranges[0] = 0 the last range is negative, the float division gives
        \* -inf and min(0.95, inf) is 0.95.
        confidence ==
            IF k > 1
            THEN IF first = 0 THEN 95
                 ELSE Min(95, Round2((160 + 15 * Min(k, 4) + 4 * vol_bonus) * first
                                         + 40 * (first - last),
                                     4 * first))
            ELSE Min(95, Round2(180 + 15 * Min(k, 4) + 4 * vol_bonus, 4))
    IN  IF k < min_contractions THEN Skipped
        ELSE IF k > 1 /\ ~decreasing THEN Skipped
        ELSE IF ~ceiling_check THEN Skipped
        ELSE IF ~tightness_check THEN Skipped
        ELSE [ok |-> TRUE,
              divzero |-> (k > 1 /\ first = 0),
              m |-> PatternMatch("VCP", f.dates, start_idx, end_idx, confidence,
                        [contractions |-> k, first |-> first, last |-> last,
                         pivot_high |-> pivot_high, is_daily |-> IsDaily(f)])]

\* for hi_start in range(len(local_max_idx) - 1)
VcpScan(f, local_max_idx, local_min_idx) ==
    SelectSeq([h \in 1..(Len(local_max_idx) - 1) |->
                   VcpCandidate(f, local_max_idx, local_min_idx, h - 1)],
              IsFound)

\* VCPDetector.detect
VCPDetect(f) ==
    IF IsDailyRaises(f) THEN Raised
    ELSE IF Len(f.highs) < VcpMinLen(f) THEN Returned(<<>>, FALSE)
    ELSE LET order == Max(VCP_MIN_ORDER, Len(f.highs) \div VCP_ORDER_DIVISOR)
             local_max_idx == LocalMaxIdx(f.highs, order)
             local_min_idx == LocalMinIdx(f.lows, order)
         IN  IF Len(local_max_idx) < 2 \/ Len(local_min_idx) < 2
             THEN Returned(<<>>, FALSE)
             ELSE LET found == VcpScan(f, local_max_idx, local_min_idx)
                  IN  Returned([i \in 1..Len(found) |-> found[i].m],
                               \E i \in 1..Len(found) : found[i].divzero)

-----------------------------------------------------------------------------
(* Pivot windows and trend lines shared by the triangle and the wedge *)

\* idx[i:i + 3]
Window3(idx, i) == <<At(idx, i), At(idx, i + 1), At(idx, i + 2)>>

\* values[indices]
Take(values, indices) == [k \in 1..Len(indices) |-> At(values, indices[k])]

SumProd(xs, ys) == Sum([k \in 1..Len(xs) |-> xs[k] * ys[k]])

\* np.polyfit(x, y, 1)[0], the least-squares slope, as the fraction num / den
\* (den > 0 when the x are distinct)
PolyfitSlope(xs, ys) ==
    [num |-> Len(xs) * SumProd(xs, ys) - Sum(xs) * Sum(ys),
     den |-> Len(xs) * SumProd(xs, xs) - Sum(xs) * Sum(xs)]

\* np.all(np.diff(values) > 0)
AllRising(values) == \A k \in 1..(Len(values) - 1) : values[k + 1] - values[k] > 0
\* np.all(np.diff(values) < 0)
AllFalling(values) == \A k \in 1..(Len(values) - 1) : values[k + 1] - values[k] < 0

\* the (i, j) passes of `for i in range(a): for j in range(b)`, in loop order
LoopPairs(a, b) ==
    IF a <= 0 \/ b <= 0 THEN <<>>
    ELSE [k \in 1..(a * b) |-> [i |-> (k - 1) \div b, j |-> (k - 1) % b]]

-----------------------------------------------------------------------------
(* Ascending triangle detector (src/patterns/ascending_triangle.py) *)

TRIANGLE_MIN_LEN == 30
TRIANGLE_ORDER == 5

\* One (i, j) pass of the sliding window
TriangleCandidate(f, local_max_idx, local_min_idx, i, j) ==
    LET max_indices == Window3(local_max_idx, i)
        min_indices == Window3(local_min_idx, j)
        start == Min(max_indices[1], min_indices[1])
        end == Max(max_indices[3], min_indices[3])
        max_vals == Take(f.highs, max_indices)
        min_vals == Take(f.lows, min_indices)
        \* np.std(max_vals) / np.mean(max_vals) = sqrt(spread) / total
        total == Sum(max_vals)
        spread == Len(max_vals) * SumProd(max_vals, max_vals) - total * total
        min_slope == PolyfitSlope(min_indices, min_vals)
        max_slope == PolyfitSlope(max_indices, max_vals)
        current_range == At(f.highs, end) - At(f.lows, end)
        start_range == At(f.highs, start) - At(f.lows, start)
        \* 1000 * sqrt(spread), rounded down: the square root to three decimals
        root == ISqrt(spread * 1000000)
        \* 0.5 + 0.2 * (1 - max_std_pct / 0.015), and
        \* + 0.2 * (1 - current_range / start_range) if start_range > 0
        confidence ==
            IF start_range > 0
            THEN Round2(270 * total * start_range - 4 * root * start_range
                            - 60 * current_range * total,
                        3 * total * start_range)
            ELSE Round2(210 * total - 4 * root, 3 * total)
    IN  IF end - start < 15 \/ end - start > 120 THEN Skipped
        \* max_std_pct > 0.015
        ELSE IF spread * 40000 > 9 * total * total THEN Skipped
        ELSE IF ~AllRising(min_vals) THEN Skipped
        \* abs(max_slope) > abs(min_slope) * 0.4
        ELSE IF Abs(max_slope.num) * min_slope.den * 10
                    > 4 * Abs(min_slope.num) * max_slope.den THEN Skipped
        ELSE IF min_slope.num <= 0 THEN Skipped
        ELSE [ok |-> TRUE,
              divzero |-> (total = 0),
              m |-> PatternMatch("Triángulo Ascendente", f.dates, start, end,
                        Clamp(40, 95, confidence),
                        [max_indices |-> max_indices, min_indices |-> min_indices,
                         start_range |-> start_range,
                         current_range |-> current_range])]

\* for i in range(len(local_max_idx) - 2): for j in range(len(local_min_idx) - 2)
TriangleScan(f, local_max_idx, local_min_idx) ==
    LET passes == LoopPairs(Len(local_max_idx) - 2, Len(local_min_idx) - 2)
    IN  SelectSeq([k \in 1..Len(passes) |->
                       TriangleCandidate(f, local_max_idx, local_min_idx,
                                         passes[k].i, passes[k].j)],
                  IsFound)

\* AscendingTriangleDetector.detect
AscendingTriangleDetect(f) ==
    IF Len(f.highs) < TRIANGLE_MIN_LEN THEN Returned(<<>>, FALSE)
    ELSE LET local_max_idx == LocalMaxIdx(f.highs, TRIANGLE_ORDER)
             local_min_idx == LocalMinIdx(f.lows, TRIANGLE_ORDER)
         IN  IF Len(local_max_idx) < 3 \/ Len(local_min_idx) < 3
             THEN Returned(<<>>, FALSE)
             ELSE LET found == TriangleScan(f, local_max_idx, local_min_idx)
                  IN  Returned([k \in 1..Len(found) |-> found[k].m],
                               \E k \in 1..Len(found) : found[k].divzero)

-----------------------------------------------------------------------------
(* Falling wedge detector (src/patterns/falling_wedge.py) *)

WEDGE_MIN_LEN == 30
WEDGE_ORDER == 5

\* One (i, j) pass of the sliding window
WedgeCandidate(f, local_max_idx, local_min_idx, i, j) ==
    LET max_indices == Window3(local_max_idx, i)
        min_indices == Window3(local_min_idx, j)
        start == Min(max_indices[1], min_indices[1])
        end == Max(max_indices[3], min_indices[3])
        max_values == Take(f.highs, max_indices)
        min_values == Take(f.lows, min_indices)
        max_slope == PolyfitSlope(max_indices, max_values)
        min_slope == PolyfitSlope(min_indices, min_values)
        \* convergence = abs(max_slope) / abs(min_slope), as conv_num / conv_den
        conv_num == Abs(max_slope.num) * min_slope.den
        conv_den == Abs(min_slope.num) * max_slope.den
        \* min(0.9, 0.5 + (convergence - 1.0) * 0.2)
        confidence == Min(90, Round2(30 * conv_den + 20 * conv_num, conv_den))
    IN  IF end - start < 15 \/ end - start > 120 THEN Skipped
        ELSE IF ~(AllFalling(max_values) /\ AllFalling(min_values)) THEN Skipped
        ELSE IF max_slope.num >= 0 \/ min_slope.num >= 0 THEN Skipped
        \* max_slope >= min_slope
        ELSE IF max_slope.num * min_slope.den >= min_slope.num * max_slope.den
             THEN Skipped
        \* convergence < 1.2
        ELSE IF conv_num * 10 < 12 * conv_den THEN Skipped
        ELSE [ok |-> TRUE,
              divzero |-> FALSE,
              m |-> PatternMatch("Falling Wedge", f.dates, start, end, confidence,
                        [max_indices |-> max_indices, min_indices |-> min_indices,
                         conv_num |-> conv_num, conv_den |-> conv_den])]

\* for i in range(len(local_max_idx) - 2): for j in range(len(local_min_idx) - 2)
WedgeScan(f, local_max_idx, local_min_idx) ==
    LET passes == LoopPairs(Len(local_max_idx) - 2, Len(local_min_idx) - 2)
    IN  SelectSeq([k \in 1..Len(passes) |->
                       WedgeCandidate(f, local_max_idx, local_min_idx,
                                      passes[k].i, passes[k].j)],
                  IsFound)

\* FallingWedgeDetector.detect
FallingWedgeDetect(f) ==
    IF Len(f.highs) < WEDGE_MIN_LEN THEN Returned(<<>>, FALSE)
    ELSE LET local_max_idx == LocalMaxIdx(f.highs, WEDGE_ORDER)
             local_min_idx == LocalMinIdx(f.lows, WEDGE_ORDER)
         IN  IF Len(local_max_idx) < 3 \/ Len(local_min_idx) < 3
             THEN Returned(<<>>, FALSE)
             ELSE LET found == WedgeScan(f, local_max_idx, local_min_idx)
                  IN  Returned([k \in 1..Len(found) |-> found[k].m],
                               \E k \in 1..Len(found) : found[k].divzero)

-----------------------------------------------------------------------------
(* Cup and handle detector (src/patterns/cup_and_handle.py) *)

CUP_MIN_LEN == 40
CUP_ORDER == 8

\* the standard deviations of the cup's halves are taken to 1/32
STD_SCALE == 32

\* np.diff(values)
Diff(values) == [k \in 1..(Len(values) - 1) |-> values[k + 1] - values[k]]

\* np.std(values) * Len(values) * STD_SCALE, rounded down
StdScaled(values) ==
    ISqrt((Len(values) * SumProd(values, values) - Sum(values) * Sum(values))
              * STD_SCALE * STD_SCALE)

IsRimPair(p) == p.j > p.i

\* One (i, j) pass over the pairs of rims
CupCandidate(f, local_max_idx, i, j) ==
    LET n == Len(f.highs)
        left_rim_idx == At(local_max_idx, i)
        right_rim_idx == At(local_max_idx, j)
        left_rim == At(f.highs, left_rim_idx)
        right_rim == At(f.highs, right_rim_idx)
        cup_width == right_rim_idx - left_rim_idx
        rim_gap == Abs(left_rim - right_rim)
        rim_max == Max(left_rim, right_rim)
        cup_section == Slice(f.lows, left_rim_idx, right_rim_idx + 1)
        cup_bottom_rel == ArgMin(cup_section)
        cup_bottom_idx == left_rim_idx + cup_bottom_rel
        cup_bottom == At(f.lows, cup_bottom_idx)
        \* rim_avg = rim_sum / 2 ; cup_depth = drop / rim_sum
        rim_sum == left_rim + right_rim
        drop == rim_sum - 2 * cup_bottom
        left_half == Slice(f.lows, left_rim_idx, cup_bottom_idx + 1)
        right_half == Slice(f.lows, cup_bottom_idx, right_rim_idx + 1)
        left_diff == Diff(left_half)
        right_diff == Diff(right_half)
        \* (left_std + right_std) / 2 / price_range > 0.5, price_range = drop / 2
        too_v_shaped ==
            /\ Len(left_half) > 3
            /\ Len(right_half) > 3
            /\ drop > 0
            /\ 2 * (StdScaled(left_diff) * Len(right_diff)
                        + StdScaled(right_diff) * Len(left_diff))
                   > STD_SCALE * Len(left_diff) * Len(right_diff) * drop
        handle_search_end == Min(right_rim_idx + cup_width \div 3, n - 1)
        handle_low == MinOf(Slice(f.lows, right_rim_idx, handle_search_end + 1))
        \* 0.02 < handle_depth_pct < cup_depth * 0.5
        has_handle ==
            /\ handle_search_end > right_rim_idx + 3
            /\ (right_rim - handle_low) * 100 > 2 * right_rim
            /\ 2 * (right_rim - handle_low) * rim_sum < drop * right_rim
        handle_end_idx == IF has_handle THEN handle_search_end ELSE right_rim_idx
        bonus == (IF has_handle THEN 15 ELSE 0)
                     + (IF drop * 100 > 15 * rim_sum THEN 10 ELSE 0)
        \* 0.4 + 0.15 * (1 - rim_diff / 0.08)
        \*     + 0.1 * (1 - abs(center_position - 0.5) / 0.25) + bonus
        confidence ==
            Round2((65 + bonus) * 2 * rim_max * cup_width
                       - 375 * rim_gap * cup_width
                       - 40 * Abs(2 * cup_bottom_rel - cup_width) * rim_max,
                   2 * rim_max * cup_width)
    IN  IF cup_width < 20 \/ cup_width > 150 THEN Skipped
        \* rim_diff > 0.08
        ELSE IF rim_gap * 100 > 8 * rim_max THEN Skipped
        \* cup_depth < 0.12 or cup_depth > 0.50
        ELSE IF drop * 100 < 12 * rim_sum \/ drop * 100 > 50 * rim_sum THEN Skipped
        \* center_position < 0.25 or center_position > 0.75
        ELSE IF 4 * cup_bottom_rel < cup_width \/ 4 * cup_bottom_rel > 3 * cup_width
             THEN Skipped
        ELSE IF too_v_shaped THEN Skipped
        ELSE [ok |-> TRUE,
              divzero |-> (rim_max = 0 \/ rim_sum = 0),
              m |-> PatternMatch("Cup and Handle", f.dates, left_rim_idx,
                        handle_end_idx, Clamp(30, 95, confidence),
                        [right_rim_idx |-> right_rim_idx,
                         cup_bottom_idx |-> cup_bottom_idx,
                         has_handle |-> has_handle,
                         handle_search_end |-> handle_search_end])]

\* for i in range(len(local_max_idx)): for j in range(i + 1, len(local_max_idx))
CupScan(f, local_max_idx) ==
    LET passes == SelectSeq(LoopPairs(Len(local_max_idx), Len(local_max_idx)),
                            IsRimPair)
    IN  SelectSeq([k \in 1..Len(passes) |->
                       CupCandidate(f, local_max_idx, passes[k].i, passes[k].j)],
                  IsFound)

\* CupAndHandleDetector.detect
CupAndHandleDetect(f) ==
    IF Len(f.highs) < CUP_MIN_LEN THEN Returned(<<>>, FALSE)
    ELSE LET local_max_idx == LocalMaxIdx(f.highs, CUP_ORDER)
             local_min_idx == LocalMinIdx(f.lows, CUP_ORDER)
         IN  IF Len(local_max_idx) < 2 \/ Len(local_min_idx) < 1
             THEN Returned(<<>>, FALSE)
             ELSE LET found == CupScan(f, local_max_idx)
                  IN  Returned([k \in 1..Len(found) |-> found[k].m],
                               \E k \in 1..Len(found) : found[k].divzero)

-----------------------------------------------------------------------------
(* Inverse head and shoulders detector (src/patterns/inverse_head_shoulders.py) *)

IHS_MIN_LEN == 40
IHS_ORDER == 5

\* Mutant: the neckline is drawn level through the first peak
NecklineLevel(p1_idx, p1_val, p2_idx, p2_val, x) ==
    [num |-> p1_val, den |-> 1]

\* slope = (p2_val - p1_val) / (p2_idx - p1_idx) if p2_idx != p1_idx else 0
\* intercept = p1_val - slope * p1_idx;  neckline(x) = slope * x + intercept,
\* as the fraction num / den
Neckline(p1_idx, p1_val, p2_idx, p2_val, x) ==
    IF p2_idx # p1_idx
    THEN [num |-> (p2_val - p1_val) * (x - p1_idx) + p1_val * (p2_idx - p1_idx),
          den |-> p2_idx - p1_idx]
    ELSE [num |-> p1_val, den |-> 1]

\* One triplet of consecutive local minima
HeadShouldersCandidate(f, min_idx, i) ==
    LET ls_idx == At(min_idx, i)
        h_idx == At(min_idx, i + 1)
        rs_idx == At(min_idx, i + 2)
        ls_val == At(f.lows, ls_idx)
        h_val == At(f.lows, h_idx)
        rs_val == At(f.lows, rs_idx)
        head_depth == Max(ls_val, rs_val) - h_val
        shoulder_diff == Abs(ls_val - rs_val)
        p1_idx == ls_idx + ArgMax(Slice(f.highs, ls_idx, h_idx + 1))
        p2_idx == h_idx + ArgMax(Slice(f.highs, h_idx, rs_idx + 1))
        p1_val == At(f.highs, p1_idx)
        p2_val == At(f.highs, p2_idx)
        span == rs_idx - ls_idx
        \* symmetry = 1 - abs((h_idx - ls_idx) - (rs_idx - h_idx)) / span
        skew == Abs((h_idx - ls_idx) - (rs_idx - h_idx))
        \* 0.15 if head_depth / h_val > 0.05 else 0
        depth_bonus == IF head_depth * 100 > 5 * h_val THEN 15 ELSE 0
        \* 0.5 + 0.2 * max(0, symmetry) + depth bonus
        confidence ==
            Round2((50 + depth_bonus) * span + 20 * Max(0, span - skew), span)
    IN  IF h_val >= ls_val \/ h_val >= rs_val THEN Skipped
        ELSE IF head_depth <= 0 THEN Skipped
        \* shoulder_diff > head_depth * 0.6
        ELSE IF shoulder_diff * 10 > head_depth * 6 THEN Skipped
        ELSE [ok |-> TRUE,
              divzero |-> (h_val = 0),
              m |-> PatternMatch("Hombro Cabeza Hombro Invertido", f.dates, ls_idx,
                        rs_idx, Clamp(40, 95, confidence),
                        [h_idx |-> h_idx, p1_idx |-> p1_idx, p2_idx |-> p2_idx,
                         \* slope = ... / (p2_idx - p1_idx) if p2_idx != p1_idx else 0
                         neckline_divides |-> (p2_idx # p1_idx),
                         \* "y0": float(neckline(ls_idx)), "y1": float(neckline(rs_idx))
                         y0 |-> Neckline(p1_idx, p1_val, p2_idx, p2_val, ls_idx),
                         y1 |-> Neckline(p1_idx, p1_val, p2_idx, p2_val, rs_idx)])]

\* for i in range(len(min_idx) - 2)
HeadShouldersScan(f, min_idx) ==
    SelectSeq([k \in 1..(Len(min_idx) - 2) |->
                   HeadShouldersCandidate(f, min_idx, k - 1)],
              IsFound)

\* InverseHeadAndShouldersDetector.detect
InverseHeadAndShouldersDetect(f) ==
    IF Len(f.highs) < IHS_MIN_LEN THEN Returned(<<>>, FALSE)
    ELSE LET min_idx == LocalMinIdx(f.lows, IHS_ORDER)
         IN  IF Len(min_idx) < 3 THEN Returned(<<>>, FALSE)
             ELSE LET found == HeadShouldersScan(f, min_idx)
                  IN  Returned([k \in 1..Len(found) |-> found[k].m],
                               \E k \in 1..Len(found) : found[k].divzero)

-----------------------------------------------------------------------------
(* The OHLCV frames the detectors are run on.  A frame is a prefix of one of *)
(* a few piecewise-linear price paths (knots <<bar, price>> for the highs,   *)
(* the lows and the volume), every bar widened by `widen` ticks on each      *)
(* side; Close is the bar's mid price.  High >= Close >= Low > 0 holds for   *)
(* every bar, and the timestamps increase strictly.                          *)

\* value at bar i of the piecewise-linear path through knots
Interp(knots, i) ==
    IF i <= knots[1][1] THEN knots[1][2]
    ELSE IF i >= knots[Len(knots)][1] THEN knots[Len(knots)][2]
    ELSE LET k == CHOOSE k \in 1..(Len(knots) - 1) :
                      knots[k][1] <= i /\ i < knots[k + 1][1]
             x0 == knots[k][1]
             y0 == knots[k][2]
             x1 == knots[k + 1][1]
             y1 == knots[k + 1][2]
         IN  y0 + FloorDiv((y1 - y0) * (i - x0), x1 - x0)

Paths ==
    [VcpInverted |->
        [hk |-> << <<0,192>>, <<2,200>>, <<3,198>>, <<8,193>>, <<9,184>>, <<10,183>>,
                   <<11,186>>, <<12,184>>, <<13,186>>, <<14,195>>, <<15,204>>,
                   <<16,208>>, <<20,204>>, <<21,184>>, <<22,183>>, <<23,185>>,
                   <<24,184>>, <<25,185>>, <<26,200>>, <<27,215>>, <<28,230>>,
                   <<32,226>>, <<33,204>>, <<34,203>>, <<35,205>>, <<36,203>>,
                   <<37,202>> >>,
         lk |-> << <<0,188>>, <<2,190>>, <<4,188>>, <<6,190>>, <<7,186>>, <<8,184>>,
                   <<9,180>>, <<10,178>>, <<12,180>>, <<13,182>>, <<15,198>>,
                   <<16,202>>, <<17,203>>, <<18,199>>, <<20,201>>, <<21,180>>,
                   <<23,178>>, <<25,180>>, <<26,190>>, <<27,205>>, <<28,222>>,
                   <<29,224>>, <<30,221>>, <<32,223>>, <<33,200>>, <<37,196>> >>,
         vk |-> << <<0,10>>, <<37,10>> >>],
     Triangle |->
        [hk |-> << <<0,110>>, <<8,120>>, <<15,112>>, <<22,120>>, <<29,113>>,
                   <<36,120>>, <<43,114>>, <<49,118>> >>,
         lk |-> << <<0,95>>, <<8,108>>, <<15,100>>, <<22,110>>, <<29,105>>,
                   <<36,112>>, <<43,110>>, <<49,114>> >>,
         vk |-> << <<0,10>>, <<49,10>> >>],
     Wedge |->
        [hk |-> << <<0,140>>, <<6,150>>, <<13,126>>, <<20,135>>, <<27,118>>,
                   <<34,120>>, <<41,110>>, <<47,114>> >>,
         lk |-> << <<0,132>>, <<6,140>>, <<13,120>>, <<20,128>>, <<27,114>>,
                   <<34,116>>, <<41,108>>, <<47,112>> >>,
         vk |-> << <<0,30>>, <<47,10>> >>],
     Cup |->
        [hk |-> << <<0,130>>, <<9,150>>, <<14,132>>, <<24,126>>, <<34,132>>,
                   <<39,150>>, <<44,143>>, <<51,147>> >>,
         lk |-> << <<0,124>>, <<9,144>>, <<14,126>>, <<19,121>>, <<24,120>>,
                   <<29,121>>, <<34,126>>, <<39,144>>, <<44,138>>, <<51,142>> >>,
         vk |-> << <<0,10>>, <<51,10>> >>],
     HeadShoulders |->
        [hk |-> << <<0,131>>, <<10,116>>, <<16,126>>, <<22,106>>, <<28,124>>,
                   <<34,116>>, <<42,134>> >>,
         lk |-> << <<0,125>>, <<10,110>>, <<16,120>>, <<22,100>>, <<28,120>>,
                   <<34,110>>, <<42,128>> >>,
         vk |-> << <<0,10>>, <<42,10>> >>],
     HeadSpike |->
        [hk |-> << <<0,131>>, <<10,116>>, <<16,126>>, <<21,108>>, <<22,140>>,
                   <<23,108>>, <<28,124>>, <<34,116>>, <<42,134>> >>,
         lk |-> << <<0,125>>, <<10,110>>, <<16,120>>, <<22,100>>, <<28,120>>,
                   <<34,110>>, <<42,128>> >>,
         vk |-> << <<0,10>>, <<42,10>> >>],
     Flagpole |->
        [hk |-> << <<0,102>>, <<8,102>>, <<14,118>>, <<26,113>> >>,
         lk |-> << <<0,98>>, <<8,98>>, <<14,106>>, <<26,111>> >>,
         vk |-> << <<0,10>>, <<26,10>> >>],
     Step |->
        [hk |-> << <<0,100>>, <<9,100>>, <<12,110>>, <<29,110>> >>,
         lk |-> << <<0,100>>, <<9,100>>, <<12,110>>, <<29,110>> >>,
         vk |-> << <<0,10>>, <<29,10>> >>],
     VShape |->
        [hk |-> << <<0,132>>, <<9,150>>, <<24,120>>, <<39,150>>, <<50,139>> >>,
         lk |-> << <<0,128>>, <<9,146>>, <<24,116>>, <<39,146>>, <<50,135>> >>,
         vk |-> << <<0,10>>, <<50,10>> >>],
     Contraction |->
        [hk |-> << <<0,140>>, <<10,150>>, <<20,140>>, <<30,148>>, <<40,144>>,
                   <<50,147>>, <<61,142>> >>,
         lk |-> << <<0,134>>, <<10,144>>, <<20,135>>, <<30,143>>, <<40,141>>,
                   <<50,144>>, <<61,138>> >>,
         vk |-> << <<0,40>>, <<61,10>> >>],
     LongTriangle |->
        [hk |-> << <<0,140>>, <<60,200>>, <<80,190>>, <<100,200>>, <<120,190>>,
                   <<140,200>> >>,
         lk |-> << <<0,100>>, <<20,140>>, <<40,120>>, <<60,192>>, <<80,172>>,
                   <<81,173>>, <<140,192>> >>,
         vk |-> << <<0,10>>, <<140,10>> >>]]

PathNames == DOMAIN Paths

\* number of bars of the whole path
PathLen(name) == Paths[name].hk[Len(Paths[name].hk)][1] + 1

\* the lengths the frames are cut to, besides the whole path: the empty and
\* the one- and two-bar frame, each detector's minimum length and one less,
\* a length that ends the series inside the cup's handle search, and the
\* longest series the VCP detector still classifies by its first two bars
CutLengths == {0, 1, 2, 23, 24, 25, 29, 30, 39, 40, 48, 59, 60, 100}

MaxWiden == 1

Intervals == {"1d", "1wk", "1mo"}
FirstWeekdays == {0, 4}

MonthStart == <<0, 31, 59, 90, 120, 151, 181, 212, 243, 273, 304, 334>>

\* calendar day of bar i: business days from weekday dow (0 = Monday) for
\* "1d", every 7th day for "1wk", the first of each month for "1mo"
BarDay(interval, dow, i) ==
    IF interval = "1d" THEN 7 * ((dow + i) \div 5) + ((dow + i) % 5) - dow
    ELSE IF interval = "1wk" THEN 7 * i
    ELSE 365 * (i \div 12) + MonthStart[(i % 12) + 1]

Frame(name, n, widen, interval, dow) ==
    LET p == Paths[name]
        high(i) == Interp(p.hk, i) + widen
        low(i) == Interp(p.lk, i) - widen
    IN  [highs |-> [i \in 1..n |-> high(i - 1)],
         lows |-> [i \in 1..n |-> low(i - 1)],
         closes |-> [i \in 1..n |-> (high(i - 1) + low(i - 1)) \div 2],
         volumes |-> [i \in 1..n |-> Interp(p.vk, i - 1)],
         dates |-> [i \in 1..n |-> BarDay(interval, dow, i - 1) * TicksPerDay]]

-----------------------------------------------------------------------------
(* Idle values of the parts of the state a specification does not use *)

NoFrame == [highs |-> <<>>, lows |-> <<>>, closes |-> <<>>, volumes |-> <<>>,
            dates |-> <<>>]
NoResult == [raised |-> FALSE, divzero |-> FALSE, matches |-> <<>>]
NoCalls == <<>>
\* _all_detectors = None (<<>>; <<classes>> once discovery has run), with the
\* number of discoveries run and of detector objects constructed so far
NoRegistry == [all_detectors |-> <<>>, discoveries |-> 0, instances |-> 0]
NoConfig == [assets |-> <<>>, enabled_patterns |-> <<>>]
\* the script before the scan: nothing listed, looked up, called or collected
NoScan == [at |-> "idle", i |-> 0, j |-> 0, all_pattern_names |-> <<>>,
           symbol_matches |-> <<>>, all_matches |-> <<>>,
           high_confidence_symbols |-> <<>>, lookups |-> <<>>,
           detect_calls |-> <<>>]
\* no fetch_ohlcv call under way
NoFetch == [at |-> "idle"]
\* no threads started, no detector module imported or being imported, no
\* detector class defined
NoThreads == [proc |-> <<>>, loading |-> {}, loaded |-> {}, subclasses |-> <<>>]

-----------------------------------------------------------------------------
(* Specification SpecDedup: _deduplicate on every small candidate list *)

MaxCands == 3
CandTimes == 0..3
CandConfidences == {50, 70}

\* A detector appends one more raw candidate (start_date <= end_date)
AddCandidate ==
    /\ pc = "collect"
    /\ Len(raw) < MaxCands
    /\ \E s \in CandTimes, e \in CandTimes, c \in CandConfidences :
          /\ s <= e
          /\ raw' = Append(raw, [id |-> Len(raw) + 1, start_date |-> s,
                                 end_date |-> e, confidence |-> c])
    /\ UNCHANGED <<matches, kept, pc, df, cadence, detector, result, now,
                   end_date, active,
                   callVars, scanVars, envVars>>

\* return self._deduplicate(matches)
RunDeduplicate ==
    /\ pc = "collect"
    /\ matches' = SortByConfidenceDesc(raw)
    /\ kept' = Deduplicate(raw)
    /\ pc' = "deduped"
    /\ UNCHANGED <<raw, df, cadence, detector, result, now, end_date, active,
                   callVars, scanVars, envVars>>

InitDedup ==
    /\ raw = <<>>
    /\ matches = <<>>
    /\ kept = <<>>
    /\ pc = "collect"
    /\ df = NoFrame
    /\ cadence = "none"
    /\ detector = "none"
    /\ result = NoResult
    /\ now = 0
    /\ end_date = 0
    /\ active = "unread"
    /\ seen = NoCalls
    /\ calls = 0
    /\ registry = NoRegistry
    /\ config = NoConfig
    /\ scan = NoScan
    /\ fetch = NoFetch
    /\ threads = NoThreads

NextDedup == AddCandidate \/ RunDeduplicate

SpecDedup == InitDedup /\ [][NextDedup]_vars

-----------------------------------------------------------------------------
(* Specification SpecActive: reading is_active_today as the clock advances *)

LastTick == MaxDay * TicksPerDay + (TicksPerDay - 1)

\* the wall clock advances
Tick ==
    /\ pc = "clock"
    /\ now < LastTick
    /\ now' = now + 1
    /\ active' = "unread"
    /\ UNCHANGED <<raw, matches, kept, pc, df, cadence, detector, result, end_date,
                   callVars, scanVars, envVars>>

\* another match is looked at
NewMatch ==
    /\ pc = "clock"
    /\ \E e \in 0..LastTick : end_date' = e
    /\ active' = "unread"
    /\ UNCHANGED <<raw, matches, kept, pc, df, cadence, detector, result, now,
                   callVars, scanVars, envVars>>

\* m.is_active_today
ReadIsActiveToday ==
    /\ pc = "clock"
    /\ active' = IF IsActiveToday(end_date, now) THEN "True" ELSE "False"
    /\ UNCHANGED <<raw, matches, kept, pc, df, cadence, detector, result, now,
                   end_date,
                   callVars, scanVars, envVars>>

InitActive ==
    /\ raw = <<>>
    /\ matches = <<>>
    /\ kept = <<>>
    /\ pc = "clock"
    /\ df = NoFrame
    /\ cadence = "none"
    /\ detector = "none"
    /\ result = NoResult
    /\ now = 0
    /\ end_date = 0
    /\ active = "unread"
    /\ seen = NoCalls
    /\ calls = 0
    /\ registry = NoRegistry
    /\ config = NoConfig
    /\ scan = NoScan
    /\ fetch = NoFetch
    /\ threads = NoThreads

NextActive == Tick \/ NewMatch \/ ReadIsActiveToday

SpecActive == InitActive /\ [][NextActive]_vars

-----------------------------------------------------------------------------
(* Specification SpecDetect: each detector run on each frame *)

DetectorNames ==
    {"AscendingTriangleDetector", "FallingWedgeDetector", "CupAndHandleDetector",
     "InverseHeadAndShouldersDetector", "PennantDetector", "VCPDetector"}

\* detector.detect(df), dispatched on the detector's class
DetectBy(d, f) ==
    CASE d = "AscendingTriangleDetector" -> AscendingTriangleDetect(f)
      [] d = "FallingWedgeDetector" -> FallingWedgeDetect(f)
      [] d = "CupAndHandleDetector" -> CupAndHandleDetect(f)
      [] d = "InverseHeadAndShouldersDetector" -> InverseHeadAndShouldersDetect(f)
      [] d = "PennantDetector" -> PennantDetect(f)
      [] d = "VCPDetector" -> VCPDetect(f)

\* found = detector.detect(df)
Detect ==
    /\ pc = "loaded"
    /\ \E d \in DetectorNames :
          /\ detector' = d
          /\ result' = DetectBy(d, df)
    /\ pc' = "detected"
    /\ UNCHANGED <<raw, matches, kept, df, cadence, now, end_date, active,
                   callVars, scanVars, envVars>>

InitDetect ==
    /\ raw = <<>>
    /\ matches = <<>>
    /\ kept = <<>>
    /\ pc = "loaded"
    /\ \E name \in PathNames, n \in CutLengths \cup {PathLen(nm) : nm \in PathNames},
          widen \in 0..MaxWiden, interval \in Intervals, dow \in FirstWeekdays :
          /\ n \in CutLengths \/ n = PathLen(name)
          /\ n <= PathLen(name)
          /\ interval # "1d" => dow = 0
          /\ df = Frame(name, n, widen, interval, dow)
          /\ cadence = interval
    /\ detector = "none"
    /\ result = NoResult
    /\ now = 0
    /\ end_date = 0
    /\ active = "unread"
    /\ seen = NoCalls
    /\ calls = 0
    /\ registry = NoRegistry
    /\ config = NoConfig
    /\ scan = NoScan
    /\ fetch = NoFetch
    /\ threads = NoThreads

NextDetect == Detect

SpecDetect == InitDetect /\ [][NextDetect]_vars

-----------------------------------------------------------------------------
(* Specification SpecRepeat: detect called again and again on one frame, by  *)
(* the same or another detector, on the same or a later day (each rerun of   *)
(* the scan calls detector.detect(df) anew)                                  *)

MaxCalls == 2

\* found = detector.detect(df), once more on the frame at hand
DetectAgain ==
    /\ pc \in {"fetched", "redetected"}
    /\ calls < MaxCalls
    /\ \E d \in DetectorNames :
          /\ detector' = d
          /\ result' = DetectBy(d, df)
          /\ seen' = IF d \in DOMAIN seen THEN seen ELSE seen @@ (d :> result')
    /\ calls' = calls + 1
    /\ pc' = "redetected"
    /\ UNCHANGED <<raw, matches, kept, df, cadence, now, end_date, active, scanVars, envVars>>

\* the date changes between two calls
Midnight ==
    /\ pc = "redetected"
    /\ now < TicksPerDay
    /\ now' = now + TicksPerDay
    /\ UNCHANGED <<raw, matches, kept, pc, df, cadence, detector, result, end_date,
                   active, callVars, scanVars, envVars>>

InitRepeat ==
    /\ raw = <<>>
    /\ matches = <<>>
    /\ kept = <<>>
    /\ pc = "fetched"
    /\ \E name \in PathNames, interval \in Intervals, dow \in FirstWeekdays :
          /\ interval # "1d" => dow = 0
          /\ df = Frame(name, PathLen(name), 0, interval, dow)
          /\ cadence = interval
    /\ detector = "none"
    /\ result = NoResult
    /\ now = 0
    /\ end_date = 0
    /\ active = "unread"
    /\ seen = NoCalls
    /\ calls = 0
    /\ registry = NoRegistry
    /\ config = NoConfig
    /\ scan = NoScan
    /\ fetch = NoFetch
    /\ threads = NoThreads

NextRepeat == DetectAgain \/ Midnight

SpecRepeat == InitRepeat /\ [][NextRepeat]_vars

-----------------------------------------------------------------------------
(* The detector registry (src/patterns/__init__.py) *)

\* the concrete PatternDetector subclasses, in the order pkgutil.iter_modules
\* imports their modules (alphabetical)
Discovered ==
    <<"AscendingTriangleDetector", "CupAndHandleDetector", "FallingWedgeDetector",
      "InverseHeadAndShouldersDetector", "PennantDetector", "VCPDetector">>

\* the name property of each detector class
NameOf(cls) ==
    CASE cls = "AscendingTriangleDetector" -> "Triángulo Ascendente"
      [] cls = "CupAndHandleDetector" -> "Cup and Handle"
      [] cls = "FallingWedgeDetector" -> "Falling Wedge"
      [] cls = "InverseHeadAndShouldersDetector" -> "Hombro Cabeza Hombro Invertido"
      [] cls = "PennantDetector" -> "Banderín (Pennant)"
      [] cls = "VCPDetector" -> "VCP"

\* Mutant: discovery runs on every call
GetAllDetectorsUncached(reg) ==
    [reg EXCEPT !.all_detectors = <<Discovered>>, !.discoveries = @ + 1]

\* get_all_detectors(): the cached list if there is one, else discovery
GetAllDetectors(reg) ==
    IF reg.all_detectors # <<>> THEN reg
    ELSE [reg EXCEPT !.all_detectors = <<Discovered>>, !.discoveries = @ + 1]

\* no detector: what get_detector_by_name returns for None
None == [cls |-> "None", id |-> 0]

\* Mutant: a name no detector has resolves to the first detector
GetDetectorByNameDefault(reg, name) ==
    LET r == GetAllDetectors(reg)
        classes == r.all_detectors[1]
        hits == {k \in 1..Len(classes) : NameOf(classes[k]) = name}
        k == IF hits = {} THEN 1 ELSE Least(hits)
    IN  [registry |-> [r EXCEPT !.instances = @ + k],
         instance |-> [cls |-> classes[k], id |-> r.instances + k]]

\* get_detector_by_name(name): instantiates class after class until one has
\* the name; the k-th object constructed since start-up has id k
GetDetectorByName(reg, name) ==
    LET r == GetAllDetectors(reg)
        classes == r.all_detectors[1]
        hits == {k \in 1..Len(classes) : NameOf(classes[k]) = name}
    IN  IF hits = {}
        THEN [registry |-> [r EXCEPT !.instances = @ + Len(classes)],
              instance |-> None]
        ELSE [registry |-> [r EXCEPT !.instances = @ + Least(hits)],
              instance |-> [cls |-> classes[Least(hits)],
                            id |-> r.instances + Least(hits)]]

\* get_all_detector_names(): [cls().name for cls in get_all_detectors()]
GetAllDetectorNames(reg) ==
    LET r == GetAllDetectors(reg)
        classes == r.all_detectors[1]
    IN  [registry |-> [r EXCEPT !.instances = @ + Len(classes)],
         names |-> [k \in 1..Len(classes) |-> NameOf(classes[k])]]

-----------------------------------------------------------------------------
(* Specification SpecScan: the scan of src/app.py over config["assets"] and   *)
(* enabled_patterns.  The two lists are the loop's inputs: every list of one  *)
(* to MaxAssets symbols (typed by the user, repetitions included) and every   *)
(* selection of one to MaxPatterns different names, the names drawn from the  *)
(* detectors' names and one name no detector has.                             *)

MaxAssets == 2
MaxPatterns == 2

CONFIDENCE_THRESHOLD == 70

\* a symbol with a month of bars, a symbol listed yesterday (one bar), and a
\* symbol no source has data for
Symbols == {"FLAG", "NEW", "GONE"}

PatternNames == {NameOf(Discovered[k]) : k \in 1..Len(Discovered)} \cup {"Doble Suelo"}

\* fetch_ohlcv(symbol, period, interval); pd.DataFrame() when nothing was
\* downloaded
FetchOhlcv(symbol) ==
    CASE symbol = "FLAG" -> Frame("Flagpole", 27, 0, "1d", 0)
      [] symbol = "NEW" -> Frame("Flagpole", 1, 0, "1d", 0)
      [] symbol = "GONE" -> NoFrame

\* the wall clock during the scan: three days after the last bar of "FLAG"
ScanClock == (BarDay("1d", 0, 26) + ActiveWindowDays) * TicksPerDay

\* df.empty
IsEmpty(f) == Len(f.dates) = 0

\* [m for m in found if m.confidence >= CONFIDENCE_THRESHOLD and m.is_active_today]
Filtered(found, t) ==
    LET Keep(m) == m.confidence >= CONFIDENCE_THRESHOLD /\ IsActiveToday(m.end_date, t)
    IN  SelectSeq(found, Keep)

\* Mutant: the exception leaves the loops and ends the script run
ExceptReraise(s) == [s EXCEPT !.at = "scanned"]

\* except Exception as e: pass
ExceptPass(s) == s

\* all_pattern_names = get_all_detector_names(), in the sidebar
ListPatterns ==
    /\ pc = "scan"
    /\ scan.at = "idle"
    /\ scan.all_pattern_names = <<>>
    /\ LET got == GetAllDetectorNames(registry)
       IN  /\ registry' = got.registry
           /\ scan' = [scan EXCEPT !.all_pattern_names = got.names]
    /\ UNCHANGED <<raw, matches, kept, pc, df, cadence, detector, result, now,
                   end_date, active, callVars, config, envVars>>

\* all_matches = {}; high_confidence_symbols = []; the loop over the assets
\* begins, the sidebar above it having run
StartScan ==
    /\ pc = "scan"
    /\ scan.at = "idle"
    /\ scan.all_pattern_names # <<>>
    /\ scan' = [scan EXCEPT !.at = "symbols", !.i = 1]
    /\ UNCHANGED <<raw, matches, kept, pc, df, cadence, detector, result, now,
                   end_date, active, callVars, registry, config, envVars>>

\* for i, symbol in enumerate(config["assets"]): df = fetch_ohlcv(...);
\* if df.empty: continue; symbol_matches = []
FetchSymbol ==
    /\ pc = "scan"
    /\ scan.at = "symbols"
    /\ scan.i <= Len(config.assets)
    /\ df' = FetchOhlcv(config.assets[scan.i])
    /\ scan' = IF IsEmpty(df') THEN [scan EXCEPT !.i = @ + 1]
               ELSE [scan EXCEPT !.at = "patterns", !.j = 1, !.symbol_matches = <<>>]
    /\ UNCHANGED <<raw, matches, kept, pc, cadence, detector, result, now,
                   end_date, active, callVars, registry, config, envVars>>

\* one turn of `for pattern_name in enabled_patterns`: the lookup, and for a
\* detector the call of detect inside try, the filter and the extend
ScanPattern ==
    /\ pc = "scan"
    /\ scan.at = "patterns"
    /\ scan.j <= Len(config.enabled_patterns)
    /\ LET symbol == config.assets[scan.i]
           pattern_name == config.enabled_patterns[scan.j]
           got == GetDetectorByName(registry, pattern_name)
           looked == [scan EXCEPT !.j = @ + 1,
                                  !.lookups = Append(@, [name |-> pattern_name,
                                                         instance |-> got.instance])]
       IN  /\ registry' = got.registry
           /\ detector' = got.instance.cls
           /\ result' = IF got.instance = None THEN result ELSE DetectBy(detector', df)
           /\ scan' = IF got.instance = None THEN looked
                      ELSE LET called == [looked EXCEPT
                                             !.detect_calls =
                                                 Append(@, [symbol |-> symbol,
                                                            pattern_name |-> pattern_name,
                                                            raised |-> result'.raised])]
                           IN  IF result'.raised THEN ExceptPass(called)
                               ELSE [called EXCEPT
                                        !.symbol_matches =
                                            @ \o Filtered(result'.matches, now)]
    /\ UNCHANGED <<raw, matches, kept, pc, df, cadence, now, end_date, active,
                   callVars, config, envVars>>

\* if symbol_matches: all_matches[symbol] = symbol_matches;
\* high_confidence_symbols.append(symbol) -- and on to the next symbol
EndSymbol ==
    /\ pc = "scan"
    /\ scan.at = "patterns"
    /\ scan.j > Len(config.enabled_patterns)
    /\ LET symbol == config.assets[scan.i]
       IN  scan' = IF scan.symbol_matches # <<>>
                   THEN [scan EXCEPT
                            !.at = "symbols", !.i = @ + 1,
                            !.all_matches = (symbol :> scan.symbol_matches) @@ @,
                            !.high_confidence_symbols = Append(@, symbol)]
                   ELSE [scan EXCEPT !.at = "symbols", !.i = @ + 1]
    /\ UNCHANGED <<raw, matches, kept, pc, df, cadence, detector, result, now,
                   end_date, active, callVars, registry, config, envVars>>

\* the loop over the assets is exhausted: progress_bar.empty()
FinishScan ==
    /\ pc = "scan"
    /\ scan.at = "symbols"
    /\ scan.i > Len(config.assets)
    /\ scan' = [scan EXCEPT !.at = "scanned"]
    /\ UNCHANGED <<raw, matches, kept, pc, df, cadence, detector, result, now,
                   end_date, active, callVars, registry, config, envVars>>

InitScan ==
    /\ raw = <<>>
    /\ matches = <<>>
    /\ kept = <<>>
    /\ pc = "scan"
    /\ df = NoFrame
    /\ cadence = "1d"
    /\ detector = "None"
    /\ result = NoResult
    /\ now = ScanClock
    /\ end_date = 0
    /\ active = "unread"
    /\ seen = NoCalls
    /\ calls = 0
    /\ registry = NoRegistry
    /\ \E na \in 1..MaxAssets, np \in 1..MaxPatterns :
          \E assets \in [1..na -> Symbols], enabled_patterns \in [1..np -> PatternNames] :
              /\ \A k, l \in 1..np : k # l => enabled_patterns[k] # enabled_patterns[l]
              /\ config = [assets |-> assets, enabled_patterns |-> enabled_patterns]
    /\ scan = NoScan
    /\ fetch = NoFetch
    /\ threads = NoThreads

NextScan ==
    \/ ListPatterns
    \/ StartScan
    \/ FetchSymbol
    \/ ScanPattern
    \/ EndSymbol
    \/ FinishScan

SpecScan == InitScan /\ [][NextScan]_vars


-----------------------------------------------------------------------------
(* fetch_ohlcv (src/data_fetcher.py).  A frame is what matters of a          *)
(* DataFrame here: its column labels in order, the ticker on the second      *)
(* level of a two-level column index ("" for a plain index) and its number   *)
(* of rows.                                                                  *)

\* pd.DataFrame()
EmptyFrame == [is_none |-> FALSE, columns |-> <<>>, ticker |-> "", rows |-> 0]
\* None
NoneFrame == [is_none |-> TRUE, columns |-> <<>>, ticker |-> "", rows |-> 0]

Table(columns, ticker, rows) ==
    [is_none |-> FALSE, columns |-> columns, ticker |-> ticker, rows |-> rows]

\* df is None or df.empty
NoData(d) == d.is_none \/ d.rows = 0 \/ Len(d.columns) = 0

\* if isinstance(df.columns, pd.MultiIndex):
\*     df.columns = df.columns.get_level_values(0)
Level0(d) == [d EXCEPT !.ticker = ""]

\* col.lower().strip(), on the labels the providers' frames carry
LowerStrip(col) ==
    CASE col \in {"Open", "open"} -> "open"
      [] col \in {"High", "high"} -> "high"
      [] col \in {"Low", "low"} -> "low"
      [] col \in {"Close", "close", " Close"} -> "close"
      [] col \in {"Volume", "volume"} -> "volume"
      [] col = "Adj Close" -> "adj close"
      [] col = "Dividends" -> "dividends"
      [] col = "Stock Splits" -> "stock splits"

\* col_map[col], or col itself for a label the map has no entry for
ColMap(col) ==
    LET col_lower == LowerStrip(col)
    IN  CASE col_lower = "open" -> "Open"
          [] col_lower = "high" -> "High"
          [] col_lower = "low" -> "Low"
          [] col_lower = "close" -> "Close"
          [] col_lower = "volume" -> "Volume"
          [] OTHER -> col

\* df.rename(columns=col_map)
Rename(d) == [d EXCEPT !.columns = [i \in 1..Len(d.columns) |-> ColMap(d.columns[i])]]

required == <<"Open", "High", "Low", "Close", "Volume">>

\* Mutant: the frame is not checked for the required columns
AnyColumns(d) == TRUE

\* all(c in df.columns for c in required)
HasRequired(d) ==
    \A i \in 1..Len(required) : \E j \in 1..Len(d.columns) : d.columns[j] = required[i]

\* df[labels]: for each label in turn, every column that carries it
RECURSIVE Columns(_, _)
Columns(columns, labels) ==
    IF labels = <<>> THEN <<>>
    ELSE LET IsLabel(c) == c = Head(labels)
         IN  SelectSeq(columns, IsLabel) \o Columns(columns, Tail(labels))

\* the three data sources, in the order the function turns to them
Providers == <<"yf.download", "Ticker.history", "pandas_ta">>

\* What a provider call can come to: it raises, or it returns None, an empty
\* frame or a frame of FetchedRows rows under one of the column sets below.
FetchedRows == 2
Raises == [raised |-> TRUE, df |-> NoneFrame]
Gives(d) == [raised |-> FALSE, df |-> d]
ColumnSets ==
    {<<"Close", "High", "Low", "Open", "Volume">>,
     <<"Open", "High", "Low", "Close", "Volume", "Dividends", "Stock Splits">>,
     <<"open", "high", "low", " Close", "volume">>,
     <<"Open", "High", "Low", "Close">>,
     <<"Adj Close", "High", "Low", "Open", "Volume">>}
Outcomes ==
    {Raises, Gives(NoneFrame), Gives(EmptyFrame),
     Gives(Table(<<"Close", "High", "Low", "Open", "Volume">>, "", 0))}
        \cup {Gives(Table(cols, "", FetchedRows)) : cols \in ColumnSets}
\* yf.download may return two-level columns for a single ticker
DownloadOutcomes ==
    Outcomes \cup {Gives(Table(<<"Close", "High", "Low", "Open", "Volume">>,
                               "FLAG", FetchedRows))}

\* try: df = <provider>(...)  except Exception: pass
\* with the call noted in `called`
Called(s, provider, o, next) ==
    [s EXCEPT !.df = IF o.raised THEN @ ELSE o.df,
              !.called = Append(@, [provider |-> provider, outcome |-> o]),
              !.at = next]

-----------------------------------------------------------------------------
(* Specification SpecFetch: one fetch_ohlcv call, the providers' outcomes    *)
(* being its inputs                                                          *)

\* df = yf.download(...), its columns reduced to their first level
YfDownload ==
    /\ pc = "fetch"
    /\ fetch.at = "download"
    /\ \E o \in DownloadOutcomes :
          fetch' = Called(fetch, Providers[1],
                          IF o.raised THEN o ELSE Gives(Level0(o.df)), "history")
    /\ UNCHANGED <<raw, matches, kept, pc, df, cadence, detector, result, now,
                   end_date, active, callVars, scanVars, threads>>

\* if df is None or df.empty: df = yf.Ticker(symbol).history(...)
TickerHistory ==
    /\ pc = "fetch"
    /\ fetch.at = "history"
    /\ \E o \in Outcomes :
          fetch' = IF NoData(fetch.df)
                   THEN Called(fetch, Providers[2], o, "pandas_ta")
                   ELSE [fetch EXCEPT !.at = "pandas_ta"]
    /\ UNCHANGED <<raw, matches, kept, pc, df, cadence, detector, result, now,
                   end_date, active, callVars, scanVars, threads>>

\* if (df is None or df.empty) and HAS_PANDAS_TA:
\*     df = pd.DataFrame().ta.ticker(...)
PandasTaTicker ==
    /\ pc = "fetch"
    /\ fetch.at = "pandas_ta"
    /\ \E o \in Outcomes :
          fetch' = IF NoData(fetch.df) /\ fetch.HAS_PANDAS_TA
                   THEN Called(fetch, Providers[3], o, "normalize")
                   ELSE [fetch EXCEPT !.at = "normalize"]
    /\ UNCHANGED <<raw, matches, kept, pc, df, cadence, detector, result, now,
                   end_date, active, callVars, scanVars, threads>>

\* the rest of the function: the empty frame for no data or a frame short of
\* a required column, else the required columns of the renamed frame
NormalizeAndReturn ==
    /\ pc = "fetch"
    /\ fetch.at = "normalize"
    /\ fetch' = [fetch EXCEPT
                    !.at = "returned",
                    !.returned =
                        IF NoData(fetch.df) THEN EmptyFrame
                        ELSE IF ~HasRequired(Rename(fetch.df)) THEN EmptyFrame
                        ELSE Table(Columns(Rename(fetch.df).columns, required), "",
                                   fetch.df.rows)]
    /\ UNCHANGED <<raw, matches, kept, pc, df, cadence, detector, result, now,
                   end_date, active, callVars, scanVars, threads>>

InitFetch ==
    /\ raw = <<>>
    /\ matches = <<>>
    /\ kept = <<>>
    /\ pc = "fetch"
    /\ df = NoFrame
    /\ cadence = "none"
    /\ detector = "none"
    /\ result = NoResult
    /\ now = 0
    /\ end_date = 0
    /\ active = "unread"
    /\ seen = NoCalls
    /\ calls = 0
    /\ registry = NoRegistry
    /\ config = NoConfig
    /\ scan = NoScan
    \* df = pd.DataFrame(); HAS_PANDAS_TA as the import of pandas_ta went
    /\ \E has \in BOOLEAN :
          fetch = [at |-> "download", HAS_PANDAS_TA |-> has, df |-> EmptyFrame,
                   called |-> <<>>, returned |-> NoneFrame]
    /\ threads = NoThreads

NextFetch == YfDownload \/ TickerHistory \/ PandasTaTicker \/ NormalizeAndReturn

SpecFetch == InitFetch /\ [][NextFetch]_vars


-----------------------------------------------------------------------------
(* Specification SpecThreads: MaxThreads threads call get_all_detectors or   *)
(* get_detector_by_name at the same time, from a start in which no detector  *)
(* module has been imported.  A thread switch can fall between any two       *)
(* statements: between the test of _all_detectors and its assignment, and    *)
(* inside a module's import.  importlib serialises the import of one module: *)
(* a thread that asks for a module another thread is still executing waits   *)
(* for that module's lock.                                                   *)

MaxThreads == 2

\* the modules pkgutil.iter_modules yields, "base" left out
ModuleNames ==
    <<"ascending_triangle", "cup_and_handle", "falling_wedge",
      "inverse_head_shoulders", "pennant", "vcp">>

\* the detector class the module's class statement defines
ClassIn(k) == Discovered[k]

\* the calls a thread makes
ThreadCalls ==
    {[fn |-> "get_all_detectors", name |-> ""],
     [fn |-> "get_detector_by_name", name |-> "Banderín (Pennant)"],
     [fn |-> "get_detector_by_name", name |-> "Doble Suelo"]}

\* the frame every thread's detector is run on
ThreadFrame == Frame("Flagpole", 27, 0, "1d", 0)

\* Mutant: a module found in sys.modules counts as imported while another
\* thread is still executing it
InSysModules(sh, module) == module \in sh.loaded \cup sh.loading

\* import_module returns at once for a module that is fully imported
IsImported(sh, module) == module \in sh.loaded

\* if _all_detectors is not None: return _all_detectors
CheckCache(t) ==
    /\ pc = "threads"
    /\ threads.proc[t].at = "start"
    /\ threads' = [threads EXCEPT !.proc[t].at =
                      IF registry.all_detectors # <<>> THEN "return" ELSE "import"]
    /\ UNCHANGED <<raw, matches, kept, pc, df, cadence, detector, result, now,
                   end_date, active, callVars, scanVars, fetch>>

\* importlib.import_module(f".{module_name}", package=__name__): passes on
\* for an imported module, waits while another thread executes it, and
\* otherwise takes the module's lock and starts executing it
ImportModule(t) ==
    /\ pc = "threads"
    /\ threads.proc[t].at = "import"
    /\ LET k == threads.proc[t].k
           module == ModuleNames[k]
       IN  IF IsImported(threads, module)
           THEN threads' = [threads EXCEPT
                               !.proc[t].k = IF k < Len(ModuleNames) THEN k + 1 ELSE k,
                               !.proc[t].at =
                                   IF k < Len(ModuleNames) THEN "import" ELSE "collect"]
           ELSE /\ module \notin threads.loading
                /\ threads' = [threads EXCEPT !.loading = @ \cup {module},
                                              !.proc[t].at = "exec"]
    /\ UNCHANGED <<raw, matches, kept, pc, df, cadence, detector, result, now,
                   end_date, active, callVars, scanVars, fetch>>

\* the module's class statement: the new class joins
\* PatternDetector.__subclasses__()
ExecClass(t) ==
    /\ pc = "threads"
    /\ threads.proc[t].at = "exec"
    /\ threads' = [threads EXCEPT
                      !.subclasses = Append(@, ClassIn(threads.proc[t].k)),
                      !.proc[t].at = "executed"]
    /\ UNCHANGED <<raw, matches, kept, pc, df, cadence, detector, result, now,
                   end_date, active, callVars, scanVars, fetch>>

\* the module's execution ends: it is imported and its lock is released
FinishImport(t) ==
    /\ pc = "threads"
    /\ threads.proc[t].at = "executed"
    /\ LET k == threads.proc[t].k
       IN  threads' = [threads EXCEPT
                          !.loading = @ \ {ModuleNames[k]},
                          !.loaded = @ \cup {ModuleNames[k]},
                          !.proc[t].at = "import"]
    /\ UNCHANGED <<raw, matches, kept, pc, df, cadence, detector, result, now,
                   end_date, active, callVars, scanVars, fetch>>

\* _collect_subclasses(PatternDetector), every class being concrete
CollectSubclasses(t) ==
    /\ pc = "threads"
    /\ threads.proc[t].at = "collect"
    /\ threads' = [threads EXCEPT !.proc[t].collected = threads.subclasses,
                                  !.proc[t].at = "set"]
    /\ registry' = [registry EXCEPT !.discoveries = @ + 1]
    /\ UNCHANGED <<raw, matches, kept, pc, df, cadence, detector, result, now,
                   end_date, active, callVars, config, scan, fetch>>

\* _all_detectors = <the collected list>
SetCache(t) ==
    /\ pc = "threads"
    /\ threads.proc[t].at = "set"
    /\ registry' = [registry EXCEPT !.all_detectors = <<threads.proc[t].collected>>]
    /\ threads' = [threads EXCEPT !.proc[t].at = "return"]
    /\ UNCHANGED <<raw, matches, kept, pc, df, cadence, detector, result, now,
                   end_date, active, callVars, config, scan, fetch>>

\* return _all_detectors, and for get_detector_by_name the loop over the
\* returned list that constructs class after class until one has the name
ReturnDetectors(t) ==
    /\ pc = "threads"
    /\ threads.proc[t].at = "return"
    /\ LET classes == registry.all_detectors[1]
           call == threads.proc[t].call
           hits == {k \in 1..Len(classes) : NameOf(classes[k]) = call.name}
           made == IF call.fn = "get_all_detectors" THEN 0
                   ELSE IF hits = {} THEN Len(classes) ELSE Least(hits)
       IN  /\ threads' = [threads EXCEPT
                             !.proc[t].at = "done",
                             !.proc[t].returned =
                                 [list |-> IF call.fn = "get_all_detectors"
                                           THEN classes ELSE <<>>,
                                  instance |->
                                      IF call.fn = "get_all_detectors" \/ hits = {}
                                      THEN None
                                      ELSE [cls |-> classes[Least(hits)],
                                            id |-> registry.instances + Least(hits)]]]
           /\ registry' = [registry EXCEPT !.instances = @ + made]
    /\ UNCHANGED <<raw, matches, kept, pc, df, cadence, detector, result, now,
                   end_date, active, callVars, config, scan, fetch>>

\* instance.detect(df) in the thread that looked the detector up
ThreadDetect(t) ==
    /\ pc = "threads"
    /\ threads.proc[t].at = "done"
    /\ threads.proc[t].returned.instance # None
    /\ threads' = [threads EXCEPT
                      !.proc[t].at = "detected",
                      !.proc[t].detected =
                          DetectBy(threads.proc[t].returned.instance.cls, df)]
    /\ UNCHANGED <<raw, matches, kept, pc, df, cadence, detector, result, now,
                   end_date, active, callVars, scanVars, fetch>>

InitThreads ==
    /\ raw = <<>>
    /\ matches = <<>>
    /\ kept = <<>>
    /\ pc = "threads"
    /\ df = ThreadFrame
    /\ cadence = "1d"
    /\ detector = "none"
    /\ result = NoResult
    /\ now = 0
    /\ end_date = 0
    /\ active = "unread"
    /\ seen = NoCalls
    /\ calls = 0
    /\ registry = NoRegistry
    /\ config = NoConfig
    /\ scan = NoScan
    /\ fetch = NoFetch
    /\ \E cs \in [1..MaxThreads -> ThreadCalls] :
          threads = [NoThreads EXCEPT
                        !.proc = [t \in 1..MaxThreads |->
                                     [at |-> "start", call |-> cs[t], k |-> 1,
                                      collected |-> <<>>,
                                      returned |-> [list |-> <<>>, instance |-> None],
                                      detected |-> NoResult]]]

NextThreads ==
    \E t \in 1..MaxThreads :
        \/ CheckCache(t)
        \/ ImportModule(t)
        \/ ExecClass(t)
        \/ FinishImport(t)
        \/ CollectSubclasses(t)
        \/ SetCache(t)
        \/ ReturnDetectors(t)
        \/ ThreadDetect(t)

SpecThreads == InitThreads /\ [][NextThreads]_vars

-----------------------------------------------------------------------------
(* Claims about the deduplicator *)

\* interval overlap of positive length, stated on the endpoints
StrictOverlap(a, b) ==
    /\ a.start_date < a.end_date /\ b.start_date < b.end_date
    /\ a.start_date < b.end_date /\ b.start_date < a.end_date

IsKept(m) == \E i \in 1..Len(kept) : kept[i] = m

\* C1: any two distinct matches returned by _deduplicate satisfy
\* max(start1, start2) >= min(end1, end2): no two kept matches strictly overlap.
C1_NonOverlapPostDedup ==
    pc = "deduped" =>
        \A i, j \in 1..Len(kept) :
            i # j => ~StrictOverlap(kept[i], kept[j])

C1_Witness ==
    /\ pc = "deduped"
    /\ Len(kept) >= 2
    /\ Len(kept) < Len(raw)

\* The reference greedy selection, by rank instead of by sorting: the rank of
\* candidate i counts the candidates of higher confidence and the earlier
\* candidates of equal confidence.
RefRank(ms, i) ==
    1 + Cardinality({j \in 1..Len(ms) :
            \/ ms[j].confidence > ms[i].confidence
            \/ (ms[j].confidence = ms[i].confidence /\ j < i)})

RefOrder(ms) ==
    [r \in 1..Len(ms) |-> ms[CHOOSE i \in 1..Len(ms) : RefRank(ms, i) = r]]

\* RefFlags(o)[r]: the r-th candidate in reference order is kept
RECURSIVE RefFlag(_, _)
RefFlag(o, r) ==
    \A q \in 1..(r - 1) : RefFlag(o, q) => ~StrictOverlap(o[r], o[q])

RECURSIVE RefSelect(_, _)
RefSelect(o, r) ==
    IF r = 0 THEN <<>>
    ELSE IF RefFlag(o, r) THEN Append(RefSelect(o, r - 1), o[r])
         ELSE RefSelect(o, r - 1)

RefGreedy(ms) == RefSelect(RefOrder(ms), Len(ms))

\* C2: _deduplicate equals the reference greedy selection (descending
\* confidence, ties in raw order, kept iff no strict overlap with an already
\* kept match); of two equal-confidence overlapping candidates the earlier
\* wins, and two candidates that merely touch are both kept.
C2_EqualsReferenceGreedy ==
    pc = "deduped" =>
        /\ matches = RefOrder(raw)
        /\ kept = RefGreedy(raw)
        /\ \A i, j \in 1..Len(raw) :
              (/\ i < j
               /\ raw[i].confidence = raw[j].confidence
               /\ StrictOverlap(raw[i], raw[j])
               /\ IsKept(raw[j])) => ~IsKept(raw[i])
        /\ (/\ Len(raw) = 2
            /\ raw[1].confidence = raw[2].confidence
            /\ StrictOverlap(raw[1], raw[2])) => kept = <<raw[1]>>
        /\ (/\ Len(raw) = 2
            /\ raw[1].end_date = raw[2].start_date) => Len(kept) = 2

C2_Witness ==
    /\ pc = "deduped"
    /\ Len(raw) = 3
    /\ raw[1].confidence < raw[2].confidence
    /\ raw[2].confidence = raw[3].confidence
    /\ StrictOverlap(raw[2], raw[3])
    /\ raw[1].end_date = raw[2].start_date
    /\ raw[1].start_date < raw[1].end_date
    /\ kept = <<raw[2], raw[1]>>

IsTop(ms, i) == \A j \in 1..Len(ms) : ms[j].confidence <= ms[i].confidence

\* C3: in a non-empty candidate list, a highest-confidence candidate that
\* overlaps no other candidate is always kept.
C3_IsolatedTopKept ==
    (pc = "deduped" /\ raw # <<>>) =>
        \A i \in 1..Len(raw) :
            (/\ IsTop(raw, i)
             /\ \A j \in 1..Len(raw) : j # i => ~StrictOverlap(raw[i], raw[j]))
            => IsKept(raw[i])

C3_Witness ==
    /\ pc = "deduped"
    /\ Len(raw) = 3
    /\ IsTop(raw, 3) /\ IsTop(raw, 1)
    /\ raw[1].end_date = raw[3].start_date
    /\ raw[3].start_date < raw[3].end_date
    /\ StrictOverlap(raw[1], raw[2])
    /\ ~StrictOverlap(raw[3], raw[2])
    /\ IsKept(raw[3])
    /\ ~IsKept(raw[2])

\* The shape of the documented limitation: three candidates, one of them
\* strictly above the other two in confidence and overlapping both, the other
\* two compatible with each other.
BlockingTriple(ms, a, b, c) ==
    /\ Len(ms) = 3
    /\ {a, b, c} = {1, 2, 3}
    /\ ms[a].confidence > ms[b].confidence
    /\ ms[a].confidence > ms[c].confidence
    /\ StrictOverlap(ms[a], ms[b])
    /\ StrictOverlap(ms[a], ms[c])
    /\ ~StrictOverlap(ms[b], ms[c])

\* C4: the selection is confidence-greedy, not a global optimum: when one
\* higher-confidence match overlaps two mutually compatible lower-confidence
\* matches, _deduplicate keeps only the higher one and discards the pair,
\* also when the pair's combined confidence is larger.
C4_GreedyNotOptimal ==
    pc = "deduped" =>
        \A a, b, c \in 1..3 :
            BlockingTriple(raw, a, b, c) => kept = <<raw[a]>>

C4_Witness ==
    /\ pc = "deduped"
    /\ \E a, b, c \in 1..3 :
          /\ BlockingTriple(raw, a, b, c)
          /\ raw[b].confidence + raw[c].confidence > raw[a].confidence
          /\ kept = <<raw[a]>>

\* a is b with some elements left out
IsSubList(a, b) ==
    \E f \in [1..Len(a) -> 1..Len(b)] :
        /\ \A i \in 1..Len(a) : b[f[i]] = a[i]
        /\ \A i \in 1..(Len(a) - 1) : f[i] < f[i + 1]

\* C27: every candidate _deduplicate discards strictly overlaps a kept match
\* of confidence greater than or equal to its own, and the returned list is a
\* sub-list of the candidates in non-increasing confidence order.
C27_DedupMaximal ==
    pc = "deduped" =>
        /\ \A i \in 1..Len(raw) :
               ~IsKept(raw[i]) =>
                   \E j \in 1..Len(kept) :
                       /\ StrictOverlap(raw[i], kept[j])
                       /\ kept[j].confidence >= raw[i].confidence
        /\ IsSubList(kept, RefOrder(raw))
        /\ \A j \in 1..(Len(kept) - 1) : kept[j].confidence >= kept[j + 1].confidence

\* two candidates kept, of different confidence, and a third discarded that
\* is as confident as the kept match it overlaps
C27_Witness ==
    /\ pc = "deduped"
    /\ Len(raw) = 3
    /\ Len(kept) = 2
    /\ kept[1].confidence > kept[2].confidence
    /\ \E i \in 1..3 :
          /\ ~IsKept(raw[i])
          /\ raw[i].confidence = kept[1].confidence
          /\ StrictOverlap(raw[i], kept[1])

-----------------------------------------------------------------------------
(* Claims about detect *)

Bars == Len(df.highs)

\* the matches the last detect call returned
Found == {result.matches[i] : i \in 1..Len(result.matches)}

\* the minimum length stated for each detector; for VCP it follows the bar
\* cadence the frame was built with
StatedMinLen ==
    CASE detector = "AscendingTriangleDetector" -> 30
      [] detector = "FallingWedgeDetector" -> 30
      [] detector = "CupAndHandleDetector" -> 40
      [] detector = "InverseHeadAndShouldersDetector" -> 40
      [] detector = "PennantDetector" -> 25
      [] detector = "VCPDetector" -> (IF cadence = "1d" THEN 60 ELSE 24)

\* C5: for every detector, detect on a series shorter than the detector's
\* minimum length (triangle 30, wedge 30, cup 40, inverse head and shoulders
\* 40, pennant 25, VCP 60 on daily cadence and 24 otherwise) returns the
\* empty list.
C5_MinLengthGuard ==
    (pc = "detected" /\ Bars < StatedMinLen) =>
        (~result.raised /\ result.matches = <<>>)

\* C6: on a series whose preconditions are unmet, the empty series and the
\* one-bar series included, detect returns an empty sequence and never
\* raises an exception.
C6_NeverRaises ==
    pc = "detected" =>
        /\ ~result.raised
        /\ Bars <= 1 => result.matches = <<>>

\* C7: no detector ever evaluates a division whose divisor is zero.
C7_NoZeroDivisor ==
    pc = "detected" => ~result.divzero

\* C8: every match any detector produces on a series satisfying the OHLCV
\* invariants has 0.0 < confidence <= 0.95.
C8_ConfidenceBounds ==
    pc = "detected" =>
        \A m \in Found : 0 < m.confidence /\ m.confidence <= 95

\* C9: every match any detector produces has start_date <= end_date, and
\* both are timestamps of bars of the input series: the bar indices used for
\* start and end lie in 0..n-1.
C9_DateOrdering ==
    pc = "detected" =>
        \A m \in Found :
            /\ m.start \in 0..(Bars - 1)
            /\ m.end \in 0..(Bars - 1)
            /\ m.start_date = At(df.dates, m.start)
            /\ m.end_date = At(df.dates, m.end)
            /\ m.start_date <= m.end_date

\* a cup whose handle runs to the last bar of the series, and so a match
\* whose end is the clamped handle_search_end
C9_Witness ==
    /\ pc = "detected"
    /\ detector = "CupAndHandleDetector"
    /\ \E m \in Found :
          /\ m.info.has_handle
          /\ m.end = Bars - 1
          /\ m.start_date < m.end_date

-----------------------------------------------------------------------------
(* Claims about is_active_today *)

Today == Normalize(now)

\* C10: is_active_today is true for a match whose (day-truncated) end_date is
\* today, true for today minus 3 days, false for today minus 4 days.
C10_ActiveBoundary ==
    active # "unread" =>
        /\ Normalize(end_date) = Today => active = "True"
        /\ Normalize(end_date) = Today - 3 * TicksPerDay => active = "True"
        /\ Normalize(end_date) = Today - 4 * TicksPerDay => active = "False"

C10_Witness ==
    /\ active = "True"
    /\ end_date # Normalize(end_date)
    /\ now # Today
    /\ Normalize(end_date) = Today - 3 * TicksPerDay

\* C11: for every match and every current date, is_active_today is true if
\* and only if the date-truncated end_date is within 3 calendar days of the
\* current date, end dates later than the current date included.
C11_ActiveIffWithinThreeDays ==
    active # "unread" =>
        (active = "True" <=> Abs(Normalize(end_date) - Today) <= 3 * TicksPerDay)

-----------------------------------------------------------------------------
(* Claims about the detectors' geometry *)

\* whether the last detect call went on to extract the extrema of df
Extracted ==
    /\ pc = "detected"
    /\ ~result.raised
    /\ CASE detector = "AscendingTriangleDetector" -> Bars >= TRIANGLE_MIN_LEN
         [] detector = "FallingWedgeDetector" -> Bars >= WEDGE_MIN_LEN
         [] detector = "CupAndHandleDetector" -> Bars >= CUP_MIN_LEN
         [] detector = "InverseHeadAndShouldersDetector" -> Bars >= IHS_MIN_LEN
         [] detector = "PennantDetector" -> FALSE
         [] detector = "VCPDetector" -> Bars >= VcpMinLen(df)

\* the order (window) that call used
ExtractedOrder ==
    CASE detector = "AscendingTriangleDetector" -> TRIANGLE_ORDER
      [] detector = "FallingWedgeDetector" -> WEDGE_ORDER
      [] detector = "CupAndHandleDetector" -> CUP_ORDER
      [] detector = "InverseHeadAndShouldersDetector" -> IHS_ORDER
      [] detector = "VCPDetector" -> Max(VCP_MIN_ORDER, Bars \div VCP_ORDER_DIVISOR)

AwayFromBoundary(idx, k) ==
    \A p \in 1..Len(idx) : idx[p] >= k /\ idx[p] <= Bars - 1 - k

\* C13: for every sequence of length n and window k a detector uses, the
\* extrema extraction reports no index i with i < k or i > n-1-k.
C13_NoBoundaryExtrema ==
    Extracted =>
        /\ AwayFromBoundary(LocalMaxIdx(df.highs, ExtractedOrder), ExtractedOrder)
        /\ AwayFromBoundary(LocalMinIdx(df.lows, ExtractedOrder), ExtractedOrder)

\* a symmetric V-shaped dip of the lows between the rim peaks li and ri, with
\* its bottom at b: equal rims, a strictly linear descent and ascent of the
\* same slope, and the cup's width, depth and centering checks all passing
VDip(f, li, b, ri) ==
    LET rim_sum == At(f.highs, li) + At(f.highs, ri)
        drop == rim_sum - 2 * At(f.lows, b)
    IN  /\ At(f.highs, li) = At(f.highs, ri)
        /\ b - li = ri - b
        /\ ri - li >= 20 /\ ri - li <= 150
        /\ drop * 100 >= 12 * rim_sum /\ drop * 100 <= 50 * rim_sum
        /\ \E slope \in 1..At(f.lows, li) :
              /\ \A i \in li..(b - 1) : At(f.lows, i + 1) - At(f.lows, i) = -slope
              /\ \A i \in b..(ri - 1) : At(f.lows, i + 1) - At(f.lows, i) = slope

\* the series has such a dip between two of the peaks the cup detector finds
HasVDip ==
    LET peaks == LocalMaxIdx(df.highs, CUP_ORDER)
    IN  \E p, q \in 1..Len(peaks) : \E b \in 0..(Bars - 1) :
            peaks[p] < b /\ b < peaks[q] /\ VDip(df, peaks[p], b, peaks[q])

\* C14: a series with a symmetric V-shaped dip between two equal-height rim
\* peaks, whose width, rim, depth and centering checks pass, produces no
\* Cup-and-Handle match: the smoothness test rejects the candidate.
C14_VShapeRejected ==
    (pc = "detected" /\ detector = "CupAndHandleDetector" /\ Bars >= CUP_MIN_LEN
         /\ HasVDip)
        => result.matches = <<>>

\* C15: on a series with daily bar cadence, whichever weekday it starts on,
\* the VCP detector returns no match built from fewer than 2 contractions.
C15_DailyNeedsTwoContractions ==
    (pc = "detected" /\ detector = "VCPDetector" /\ cadence = "1d")
        => \A m \in Found : m.info.contractions >= 2

\* some pivot high of the series is followed by exactly one contraction that
\* passes the ceiling check and the single-contraction tightness check
SingleContractionPasses(f) ==
    LET order == Max(VCP_MIN_ORDER, Len(f.highs) \div VCP_ORDER_DIVISOR)
        local_max_idx == LocalMaxIdx(f.highs, order)
        local_min_idx == LocalMinIdx(f.lows, order)
    IN  /\ Len(local_max_idx) >= 2
        /\ Len(local_min_idx) >= 2
        /\ \E h \in 0..(Len(local_max_idx) - 2) :
              LET pivot_high == At(f.highs, At(local_max_idx, h))
                  cs == VcpContractions(f, local_max_idx, local_min_idx,
                                        At(local_max_idx, h), VCP_MAX_CONTRACTIONS)
              IN  /\ Len(cs) = 1
                  /\ Abs(cs[1].high_val - pivot_high) * 100 < 8 * pivot_high
                  /\ cs[1].contraction_range * 100 < 15 * pivot_high

\* C16: on a series with weekly or monthly bar cadence, of any length, the VCP
\* detector applies the non-daily thresholds (at least 24 bars, at least 1
\* contraction): a single-contraction pattern that passes the other checks
\* is returned.
C16_NonDailyThresholds ==
    (pc = "detected" /\ detector = "VCPDetector" /\ cadence \in {"1wk", "1mo"}
         /\ Bars >= VCP_OTHER_MIN_LEN /\ SingleContractionPasses(df))
        => /\ result.matches # <<>>
           /\ \A m \in Found : ~m.info.is_daily

\* consecutive entries of an increasing index sequence lie 20 to 40 bars apart
Spaced(idx) == \A k \in 1..(Len(idx) - 1) : idx[k + 1] - idx[k] \in 20..40

\* consecutive members of a set of indexes lie 20 to 40 bars apart
SpacedSet(S) ==
    \A a, b \in S :
        (a < b /\ ~\E c \in S : a < c /\ c < b) => b - a \in 20..40

\* the highs have exactly 3 local maxima, all equal, and the lows exactly 3
\* local minima, strictly rising; the maxima, the minima, and the six pivots
\* taken together are each spaced 20 to 40 bars apart
ThreeFlatTopsRisingLows ==
    LET maxs == LocalMaxIdx(df.highs, TRIANGLE_ORDER)
        mins == LocalMinIdx(df.lows, TRIANGLE_ORDER)
    IN  /\ Len(maxs) = 3
        /\ Len(mins) = 3
        /\ \A k \in 1..2 : At(df.highs, maxs[k]) = At(df.highs, maxs[k + 1])
        /\ \A k \in 1..2 : At(df.lows, mins[k]) < At(df.lows, mins[k + 1])
        /\ Spaced(maxs)
        /\ Spaced(mins)
        /\ SpacedSet({maxs[k] : k \in 1..3} \cup {mins[k] : k \in 1..3})

\* C17: a series with 3 equal local maxima of the highs and 3 strictly rising
\* local minima of the lows, the pivots 20 to 40 bars apart, yields at least
\* one Ascending Triangle match, and every Ascending Triangle match has
\* confidence >= 0.4.
C17_TriangleDetected ==
    (pc = "detected" /\ detector = "AscendingTriangleDetector")
        => /\ ThreeFlatTopsRisingLows => result.matches # <<>>
           /\ \A m \in Found : m.confidence >= 40

-----------------------------------------------------------------------------
(* Claims about repeated detect calls *)

-----------------------------------------------------------------------------
(* Claims about the registry and the scan *)

RECURSIVE Flatten(_)
Flatten(ss) == IF ss = <<>> THEN <<>> ELSE Head(ss) \o Flatten(Tail(ss))

\* the names some discovered detector has
KnownNames == {NameOf(Discovered[k]) : k \in 1..Len(Discovered)}

ClassOf(name) == CHOOSE c \in DetectorNames : NameOf(c) = name

\* the assets a frame was downloaded for, and the enabled names of detectors
WithData ==
    LET HasData(symbol) == ~IsEmpty(FetchOhlcv(symbol))
    IN  SelectSeq(config.assets, HasData)
EnabledKnown ==
    LET IsKnown(name) == name \in KnownNames
    IN  SelectSeq(config.enabled_patterns, IsKnown)

\* the lookups that returned a detector
Resolved == {k \in 1..Len(scan.lookups) : scan.lookups[k].instance # None}

\* the detect calls made so far, as <<symbol, pattern_name>>
Calls ==
    [k \in 1..Len(scan.detect_calls) |->
        <<scan.detect_calls[k].symbol, scan.detect_calls[k].pattern_name>>]

\* the detect calls of a scan nothing interrupts
ExpectedCalls ==
    Flatten([a \in 1..Len(WithData) |->
                [b \in 1..Len(EnabledKnown) |-> <<WithData[a], EnabledKnown[b]>>]])

\* what the detectors that do not raise contribute for a symbol
ExpectedFor(symbol) ==
    Flatten([b \in 1..Len(EnabledKnown) |->
                LET found == DetectBy(ClassOf(EnabledKnown[b]), FetchOhlcv(symbol))
                IN  IF found.raised THEN <<>> ELSE Filtered(found.matches, now)])

\* the symbols a scan that nothing interrupts reports, given what the
\* detectors contribute for each symbol
ExpectedSymbols(expected) ==
    LET HasMatches(symbol) == expected[symbol] # <<>>
    IN  SelectSeq(WithData, HasMatches)

\* C18: get_detector_by_name returns None for every name that is not the name
\* of a discovered detector; the scan loop makes no detect call for such a
\* name and goes on with the remaining enabled names: every enabled name is
\* looked up for every asset with data.
C18_UnknownNameSkipped ==
    pc = "scan" =>
        /\ \A k \in 1..Len(scan.lookups) :
               scan.lookups[k].name \notin KnownNames
                   => scan.lookups[k].instance = None
        /\ \A k \in 1..Len(scan.detect_calls) :
               scan.detect_calls[k].pattern_name \in KnownNames
        /\ scan.at = "scanned"
               => Len(scan.lookups) = Len(WithData) * Len(config.enabled_patterns)

\* a finished scan whose first enabled name no detector has and whose second
\* enabled name was looked up and its detector called
C18_Witness ==
    /\ scan.at = "scanned"
    /\ Len(config.enabled_patterns) = 2
    /\ config.enabled_patterns[1] \notin KnownNames
    /\ config.enabled_patterns[2] \in KnownNames
    /\ scan.lookups # <<>>
    /\ scan.lookups[1].instance = None
    /\ scan.detect_calls # <<>>
    /\ scan.detect_calls[1].pattern_name = config.enabled_patterns[2]

\* C19: every name get_all_detector_names returned resolves through
\* get_detector_by_name to an instance of that name; every lookup constructs
\* a fresh instance; discovery runs at most once and the cached list of
\* classes stays what discovery found; no detection result is cached: every
\* resolved lookup of the scan is followed by its own detect call.
C19_RegistryRoundTrip ==
    pc = "scan" =>
        /\ registry.discoveries <= 1
        /\ registry.all_detectors \in {<<>>, <<Discovered>>}
        /\ \A k \in 1..Len(scan.lookups) :
               (\E n \in 1..Len(scan.all_pattern_names) :
                     scan.all_pattern_names[n] = scan.lookups[k].name)
                   => /\ scan.lookups[k].instance # None
                      /\ NameOf(scan.lookups[k].instance.cls) = scan.lookups[k].name
        /\ \A k, l \in Resolved :
               k # l => scan.lookups[k].instance.id # scan.lookups[l].instance.id
        /\ \A k \in Resolved : scan.lookups[k].instance.id <= registry.instances
        /\ Cardinality(Resolved) = Len(scan.detect_calls)

\* a finished scan after the sidebar listed the names, in which one name was
\* resolved twice
C19_Witness ==
    /\ scan.at = "scanned"
    /\ Len(scan.all_pattern_names) = Len(Discovered)
    /\ registry.discoveries = 1
    /\ \E k, l \in Resolved :
          /\ k < l
          /\ scan.lookups[k].name = scan.lookups[l].name
          /\ scan.lookups[k].instance.cls = scan.lookups[l].instance.cls
          /\ scan.lookups[k].instance.id < scan.lookups[l].instance.id

\* C20: an exception raised by one detector's detect for one symbol does not
\* abort the scan: when the scan ends, every enabled detector was called for
\* every asset with data, and the matches collected are those of all the
\* calls that did not raise.
C20_ExceptionIsolated ==
    (pc = "scan" /\ scan.at = "scanned") =>
        LET expected == [symbol \in Symbols |-> ExpectedFor(symbol)]
            symbols == ExpectedSymbols(expected)
        IN  /\ Calls = ExpectedCalls
            /\ scan.high_confidence_symbols = symbols
            /\ DOMAIN scan.all_matches = {symbols[k] : k \in 1..Len(symbols)}
            /\ \A symbol \in DOMAIN scan.all_matches :
                   scan.all_matches[symbol] = expected[symbol]

\* a finished scan in which matches were collected for the first symbol,
\* then a detect call for another symbol raised, and a further detect call
\* followed
C20_Witness ==
    /\ scan.at = "scanned"
    /\ \E k \in 1..Len(scan.detect_calls) :
          /\ scan.detect_calls[k].raised
          /\ k < Len(scan.detect_calls)
          /\ ~scan.detect_calls[k + 1].raised
          /\ scan.detect_calls[1].symbol # scan.detect_calls[k].symbol
          /\ scan.detect_calls[1].symbol \in DOMAIN scan.all_matches

\* what the scan has collected or reported so far: the program's variables
\* the rest of the script reads (the except branch calls nothing that writes
\* to the page or to a log)
Surfaced(s) == <<s.symbol_matches, s.all_matches, s.high_confidence_symbols>>

\* C21: when a detector's detect raises for a (symbol, detector) unit, the
\* scan records or reports an error for that unit: the step that catches the
\* exception changes what the scan has collected or reported.
C21_ErrorSurfaced ==
    [][(pc = "scan" /\ Len(scan'.detect_calls) > Len(scan.detect_calls)
            /\ result'.raised)
           => Surfaced(scan') # Surfaced(scan)]_vars

-----------------------------------------------------------------------------
(* Claims about what the detectors' matches are built from *)

\* the matches of the last detect call, when detector d made it
FoundBy(d) == IF pc = "detected" /\ detector = d THEN Found ELSE {}

\* some close-to-close move over 3 to 10 bars ending at bar pennant_start is
\* at least 5 % in absolute value
HasFlagpoleMove(pennant_start) ==
    \E f_len \in 3..10 :
        /\ pennant_start - f_len >= 0
        /\ Abs(At(df.closes, pennant_start) - At(df.closes, pennant_start - f_len)) * 100
               >= 5 * At(df.closes, pennant_start - f_len)

\* C22: every Pennant match has a consolidation of 5 to 20 bars in which the
\* second half's highest high is not above the first half's, the second
\* half's lowest low is not below the first half's, the second-half range is
\* at most 80 % of the first-half range, and a 3-to-10-bar close-to-close
\* move of at least 5 % ends at the consolidation start.
C22_PennantGeometry ==
    \A m \in FoundBy("PennantDetector") :
        /\ m.info.p_len \in 5..20
        /\ m.end - m.info.pennant_start = m.info.p_len
        /\ m.info.max_2 <= m.info.max_1
        /\ m.info.min_2 >= m.info.min_1
        /\ (m.info.max_2 - m.info.min_2) * 10 <= (m.info.max_1 - m.info.min_1) * 8
        /\ HasFlagpoleMove(m.info.pennant_start)


\* the lowest low from the right rim to width // 3 bars after it (or the last
\* bar) is a pullback below the right rim of more than 2 % and of less than
\* half the cup depth
IsHandlePullback(m) ==
    LET right_rim_idx == m.info.right_rim_idx
        width == right_rim_idx - m.start
        search_end == Min(right_rim_idx + width \div 3, Bars - 1)
        left_rim == At(df.highs, m.start)
        right_rim == At(df.highs, right_rim_idx)
        cup_bottom == At(df.lows, m.info.cup_bottom_idx)
        handle_low == MinOf(Slice(df.lows, right_rim_idx, search_end + 1))
    IN  /\ (right_rim - handle_low) * 100 > 2 * right_rim
        /\ 2 * (right_rim - handle_low) * (left_rim + right_rim)
               < (left_rim + right_rim - 2 * cup_bottom) * right_rim

\* C23: in a Cup-and-Handle match a handle is recognised exactly when the
\* lowest low within width/3 bars after the right rim is a pullback
\* retracing between 2 % and 50 % of the cup depth; with a handle the match
\* ends at min(right_rim + width // 3, n - 1), without one at the right rim.
C23_HandleRecognition ==
    \A m \in FoundBy("CupAndHandleDetector") :
        /\ m.info.has_handle <=> IsHandlePullback(m)
        /\ m.end = IF m.info.has_handle
                   THEN Min(m.info.right_rim_idx + (m.info.right_rim_idx - m.start) \div 3,
                            Bars - 1)
                   ELSE m.info.right_rim_idx


\* C24: every VCP match is built from 1 to 5 contractions whose ranges are
\* strictly decreasing in order, every contraction high lies within 8 % of
\* the pivot high, and with two or more contractions the last range is at
\* most 80 % of the first or below 10 % of the pivot high.
C24_VcpContractionShape ==
    \A m \in FoundBy("VCPDetector") :
        LET order == Max(VCP_MIN_ORDER, Bars \div VCP_ORDER_DIVISOR)
            local_max_idx == LocalMaxIdx(df.highs, order)
            local_min_idx == LocalMinIdx(df.lows, order)
            cs == VcpContractions(df, local_max_idx, local_min_idx, m.start,
                                  VCP_MAX_CONTRACTIONS)
            pivot_high == At(df.highs, m.start)
            k == Len(cs)
        IN  /\ k \in 1..5
            /\ k = m.info.contractions
            /\ cs[k].high_idx = m.end
            /\ \A i \in 1..(k - 1) :
                   cs[i].contraction_range > cs[i + 1].contraction_range
            /\ \A i \in 1..k :
                   Abs(cs[i].high_val - pivot_high) * 100 < 8 * pivot_high
            /\ k >= 2 =>
                   \/ cs[k].contraction_range * 10 <= cs[1].contraction_range * 8
                   \/ cs[k].contraction_range * 100 < 10 * pivot_high

\* a VCP match of three contractions
C24_Witness ==
    \E m \in FoundBy("VCPDetector") : m.info.contractions >= 3


\* bar j is a local minimum of the lows: no low within five bars of it (the
\* window cut at the ends of the series) is lower
IsLocalLow(j) ==
    \A k \in Max(0, j - 5)..Min(Bars - 1, j + 5) : At(df.lows, k) >= At(df.lows, j)

\* the line through (x0, y0) and (x1, y1) passes through (x, y); y0 and y1
\* are fractions
OnLine(x0, y0, x1, y1, x, y) ==
    (y1.num * y0.den - y0.num * y1.den) * (x - x0)
        = (y * y0.den - y0.num) * y1.den * (x1 - x0)

-----------------------------------------------------------------------------
(* Claims about fetch_ohlcv *)

\* the provider call failed: it raised, or returned None or an empty frame
Failed(o) == o.raised \/ NoData(o.df)

\* the frame has no column named as label c, letter case and surrounding
\* blanks aside
Lacks(d, c) == \A j \in 1..Len(d.columns) : ColMap(d.columns[j]) # c

\* C26: fetch_ohlcv calls its providers in the order yf.download,
\* Ticker.history, pandas_ta, a later one only when every earlier one raised
\* or returned no data; whatever the providers do the call returns a frame:
\* the empty frame when every provider failed or the frame obtained lacks
\* one of Open, High, Low, Close, Volume, and otherwise a frame of exactly
\* those five columns.
C26_ProviderFallback ==
    pc = "fetch" =>
        LET called == fetch.called
            n == Len(called)
            all_failed == \A k \in 1..n : Failed(called[k].outcome)
        IN  /\ n <= Len(Providers)
            /\ \A k \in 1..n : called[k].provider = Providers[k]
            /\ \A k \in 2..n : \A j \in 1..(k - 1) : Failed(called[j].outcome)
            /\ fetch.at = "returned" =>
                   /\ ~fetch.returned.is_none
                   /\ IF all_failed
                         \/ \E i \in 1..Len(required) :
                                Lacks(called[n].outcome.df, required[i])
                      THEN fetch.returned = EmptyFrame
                      ELSE /\ fetch.returned.columns = required
                           /\ fetch.returned.rows = called[n].outcome.df.rows

\* yf.download raised, Ticker.history returned no data, pandas_ta returned a
\* frame, and the call returned its five columns
C26_Witness ==
    /\ pc = "fetch"
    /\ fetch.at = "returned"
    /\ Len(fetch.called) = 3
    /\ fetch.called[1].outcome.raised
    /\ ~fetch.called[2].outcome.raised
    /\ fetch.called[3].outcome.df.columns # required
    /\ fetch.returned.columns = required


-----------------------------------------------------------------------------
(* Claims about the intervals of the detectors' matches *)

\* the timestamps of the frame increase strictly
StrictlyIncreasing(dates) == \A i \in 1..(Len(dates) - 1) : dates[i] < dates[i + 1]

\* C28: on a series with strictly increasing timestamps every match of each
\* of the six detectors has start_date strictly earlier than end_date: no
\* interval of length zero is handed to or returned by the deduplicator.
C28_PositiveLength ==
    (pc = "detected" /\ StrictlyIncreasing(df.dates)) =>
        \A m \in Found : m.start < m.end /\ m.start_date < m.end_date


\* a detector has returned two matches or more, each of positive length, on
\* a frame of strictly increasing timestamps
C28_Witness ==
    /\ pc = "detected"
    /\ StrictlyIncreasing(df.dates)
    /\ Cardinality(Found) >= 2
    /\ \A m \in Found : m.start_date < m.end_date


-----------------------------------------------------------------------------
(* Claims about the bars the Pennant scan reads *)

\* the end bars and consolidation lengths the scan passes over
PennantEnds == (PENNANT_LAST_END + 1)..(Bars - 1)
PennantLengths == PENNANT_MIN_BARS..PENNANT_MAX_BARS

\* C29: on a series of n >= 25 bars every bar index the Pennant scan reads
\* (the flagpole starts it tries, the consolidation start, the end bar and
\* both half-windows) lies in 0..n-1, both half-windows are non-empty, and
\* the scan appends at most one candidate per end bar.
C29_PennantReadsInRange ==
    (pc = "detected" /\ detector = "PennantDetector" /\ Bars >= 25) =>
        /\ \A end_idx \in PennantEnds, p_len \in PennantLengths :
               LET reads == PennantReads(df, end_idx, p_len)
               IN  /\ end_idx \in 0..(Bars - 1)
                   /\ reads.closes \subseteq 0..(Bars - 1)
                   /\ \A w \in 1..Len(reads.windows) :
                          /\ 0 <= reads.windows[w][1]
                          /\ reads.windows[w][1] < reads.windows[w][2]
                          /\ reads.windows[w][2] <= Bars
        /\ LET scanned == PennantScan(df)
           IN  \A i, j \in 1..Len(scanned) :
                   i # j => scanned[i].m.end # scanned[j].m.end

\* a series on which the scan reads bar 0 as a flagpole start, reads both
\* half-windows of a consolidation that ends on the last bar, and appends a
\* candidate for an end bar at which two consolidation lengths or more pass
C29_Witness ==
    /\ pc = "detected" /\ detector = "PennantDetector" /\ Bars >= 25
    /\ \E end_idx \in PennantEnds, p_len \in PennantLengths :
          0 \in PennantReads(df, end_idx, p_len).closes
    /\ \E p_len \in PennantLengths :
          Len(PennantReads(df, Bars - 1, p_len).windows) = 2
    /\ \E end_idx \in PennantEnds :
          Cardinality({p \in PennantLengths :
                           PennantCandidate(df, end_idx, p).ok}) >= 2


-----------------------------------------------------------------------------
(* Claims about concurrent callers of the registry *)

Threads == 1..MaxThreads

\* thread t's call has returned
HasReturned(t) == threads.proc[t].at \in {"done", "detected"}

\* the interpreter state the threads share
Shared == <<registry, threads.loading, threads.loaded, threads.subclasses>>

\* what thread t's call has returned is what the call returns on its own: the
\* complete list of detector classes, or the detector of the name asked for
\* (None for a name no detector has)
ReturnedComplete(t) ==
    LET call == threads.proc[t].call
        returned == threads.proc[t].returned
    IN  IF call.fn = "get_all_detectors"
        THEN /\ Len(returned.list) = Len(Discovered)
             /\ {returned.list[i] : i \in 1..Len(returned.list)}
                    = {Discovered[i] : i \in 1..Len(Discovered)}
        ELSE IF call.name \in KnownNames
        THEN returned.instance.cls = ClassOf(call.name)
        ELSE returned.instance = None

\* C30: with several threads calling get_all_detectors or
\* get_detector_by_name at once, the first, cache-filling calls included,
\* under every interleaving of the test and the assignment of _all_detectors
\* every call returns the complete set of detector classes (or the detector
\* of the requested name); _all_detectors never holds an empty or partly
\* built list; and a detect call reads and writes nothing shared: its result
\* is that of the same call made alone, and it leaves the shared state and
\* the other threads as they are.
C30_ConcurrentDiscovery ==
    /\ [](pc = "threads" =>
            /\ registry.all_detectors \in {<<>>, <<Discovered>>}
            /\ \A t \in Threads :
                  /\ HasReturned(t) => ReturnedComplete(t)
                  /\ threads.proc[t].at = "detected" =>
                         threads.proc[t].detected
                             = DetectBy(threads.proc[t].returned.instance.cls,
                                        ThreadFrame))
    /\ [][pc = "threads" =>
            \A t \in Threads :
                (threads.proc[t].at = "done" /\ threads'.proc[t].at = "detected")
                    => /\ Shared' = Shared
                       /\ \A u \in Threads \ {t} : threads'.proc[u] = threads.proc[u]]_vars

\* both threads found _all_detectors unset and ran the discovery, one of them
\* while the other was inside a module's import; both calls have returned,
\* and one has run the detector it looked up and found matches
C30_Witness ==
    /\ pc = "threads"
    /\ registry.discoveries = MaxThreads
    /\ \A t \in Threads : HasReturned(t) /\ ReturnedComplete(t)
    /\ \E t \in Threads :
          /\ threads.proc[t].at = "detected"
          /\ threads.proc[t].detected.matches # <<>>

=============================================================================
